---- MODULE Spec2Model ----
(***************************************************************************)
(* PrediClaw: the market settlement engine of src/prediclaw/api.py over    *)
(* the InMemoryStore of src/prediclaw/storage.py.                          *)
(*                                                                         *)
(* Money (the Python floats wallet_balance_bdc, outcome_pools, delta_bdc,  *)
(* price, ...) is modelled with exact arithmetic: a value is a normalised  *)
(* fraction <<numerator, denominator>> with denominator > 0.  UUIDs are    *)
(* model values (bots) or creation indices (markets, events).  Timestamps  *)
(* are integer seconds.  Titles, evidence, api keys and timestamps of      *)
(* ledger entries, trades and events carry no behaviour and are left out;  *)
(* a request carries key_ok, whether its X-API-Key equals the bot's key.   *)
(***************************************************************************)
EXTENDS Integers, Sequences, FiniteSets, TLC

\* ------------------------------------------------------------------ bounds
MaxTicks == 1
MaxMarkets == 2
MaxTrades == 3
MaxDeposits == 2
MaxAlerts == 1

\* ------------------------------------------------------- program constants
RATE_LIMIT_WINDOW_SECONDS == 60
ACTION_WINDOW_SECONDS == 86400
\* PREDICLAW_DEFAULT_MAX_REQUESTS_PER_MINUTE of the process modelled: 1
MAX_BOT_REQUESTS_PER_MINUTE == 1
DEFAULT_MAX_ACTIVE_MARKETS == 5
DEFAULT_MAX_TRADE_BDC == 500
DEFAULT_MAX_MARKETS_PER_DAY == 0
DEFAULT_MAX_RESOLUTIONS_PER_DAY == 0
MIN_BOT_BALANCE_BDC == 10
MIN_BOT_REPUTATION_SCORE == 1
WEBHOOK_MAX_ATTEMPTS == 5
WEBHOOK_BASE_BACKOFF_SECONDS == 5

None == "None"

\* market_id = None of a ledger entry or event; resolved_at = None of a market
NoMarket == 0

NoTime == -1

\* ------------------------------------------------------- exact arithmetic
RECURSIVE Gcd(_, _)
Gcd(a, b) == IF b = 0 THEN a ELSE Gcd(b, a % b)

Abs(n) == IF n < 0 THEN -n ELSE n

\* the fraction n/d (d > 0) in lowest terms
Rat(n, d) == LET g == Gcd(Abs(n), d) IN <<n \div g, d \div g>>

R(i) == <<i, 1>>

RAdd(x, y) == Rat(x[1] * y[2] + y[1] * x[2], x[2] * y[2])

RSub(x, y) == Rat(x[1] * y[2] - y[1] * x[2], x[2] * y[2])

RMul(x, y) == Rat(x[1] * y[1], x[2] * y[2])

\* x / y for y # 0
RDiv(x, y) ==
    IF y[1] > 0 THEN Rat(x[1] * y[2], x[2] * y[1])
    ELSE Rat(-(x[1] * y[2]), -(x[2] * y[1]))

RLt(x, y) == x[1] * y[2] < y[1] * x[2]

RLe(x, y) == x[1] * y[2] <= y[1] * x[2]

\* ------------------------------------------------------------ input sets
BotIds == {"b1", "b2"}

\* a bot id no bot was ever registered under
Stranger == "b0"

\* a third registered bot, which never becomes active
Idle == "b3"

Range(f) == {f[x] : x \in DOMAIN f}

\* ----------------------------------------------------------------- state
VARIABLES
    store,                  \* the InMemoryStore behind api.store
    now,                    \* store.now(), in seconds
    AUTO_RESOLVE_ENABLED,   \* the process's PREDICLAW_AUTO_RESOLVE setting
    metrics,                \* app.state.metrics: the webhook counters
    resolving,              \* the resolve_market calls between their check of
                            \* the market's status and the rest of the handler
    trading                 \* the create_trade calls between their check of
                            \* the market's status and the rest of the handler

vars == <<store, now, AUTO_RESOLVE_ENABLED, metrics, resolving, trading>>

\* RequestMetrics(): the counters of the webhook worker, at 0
RequestMetrics == [webhook_attempts |-> 0, webhook_failures |-> 0]

\* default_bot_policy(status): the per-bot limits a new bot gets
default_bot_policy(status) ==
    [ status |-> status,
      max_requests_per_minute |-> MAX_BOT_REQUESTS_PER_MINUTE,
      max_active_markets |-> DEFAULT_MAX_ACTIVE_MARKETS,
      max_trade_bdc |-> R(DEFAULT_MAX_TRADE_BDC),
      max_markets_per_day |-> DEFAULT_MAX_MARKETS_PER_DAY,
      max_resolutions_per_day |-> DEFAULT_MAX_RESOLUTIONS_PER_DAY,
      min_balance_bdc_for_market |-> R(MIN_BOT_BALANCE_BDC),
      min_reputation_score_for_market |-> R(MIN_BOT_REPUTATION_SCORE),
      min_balance_bdc_for_resolution |-> R(MIN_BOT_BALANCE_BDC),
      min_reputation_score_for_resolution |-> R(MIN_BOT_REPUTATION_SCORE),
      stake_bdc_market |-> R(0),
      stake_bdc_resolution |-> R(0) ]

\* TreasuryConfig(): the default treasury configuration
TreasuryConfig ==
    [ send_unpaid_to_treasury |-> TRUE,
      liquidity_bot_allocation_pct |-> R(0),
      liquidity_bot_weights |-> <<>> ]

\* InMemoryStore.__init__: every collection empty, the treasury at 0
InMemoryStore ==
    [ bots |-> <<>>,
      bot_policies |-> <<>>,
      markets |-> <<>>,
      trades |-> <<>>,
      resolutions |-> <<>>,
      resolution_votes |-> <<>>,
      ledger |-> [b \in BotIds \cup {Idle} |-> <<>>],
      treasury_ledger |-> <<>>,
      bot_request_log |-> [b \in BotIds \cup {Idle} |-> <<>>],
      bot_action_log |-> [b \in BotIds \cup {Idle} |->
                            [a \in {"market_create", "resolve_market"} |-> <<>>]],
      webhooks |-> <<>>,
      events |-> <<>>,
      outbox |-> <<>>,
      alerts |-> <<>>,
      treasury_balance_bdc |-> R(0),
      treasury_config |-> TreasuryConfig ]

\* f with key k set to v (a dict assignment d[k] = v)
Put(f, k, v) == [x \in DOMAIN f \cup {k} |-> IF x = k THEN v ELSE f[x]]

\* ------------------------------------------------------------- the store
RECURSIVE Prune(_, _)
\* the while loop of prune_bot_requests / prune_bot_actions: drop entries from
\* the front while they are older than the cutoff
Prune(entries, cutoff) ==
    IF entries # <<>> /\ entries[1] < cutoff
    THEN Prune(Tail(entries), cutoff)
    ELSE entries

\* InMemoryStore.prune_bot_requests
prune_bot_requests(s, t, bot_id, window_seconds) ==
    [s EXCEPT !.bot_request_log[bot_id] = Prune(@, t - window_seconds)]

\* InMemoryStore.prune_bot_actions
prune_bot_actions(s, t, bot_id, action, window_seconds) ==
    [s EXCEPT !.bot_action_log[bot_id][action] = Prune(@, t - window_seconds)]

\* the OutboxEntry add_event creates for one webhook
OutboxEntry(webhook, event_id, event_type, t) ==
    [ webhook_id |-> webhook.id, event_id |-> event_id, event_type |-> event_type,
      status |-> "pending", attempts |-> 0, next_attempt_at |-> t ]

RECURSIVE FanOut_unfiltered_skipped(_, _, _, _)
\* the loop of add_event that takes an empty filter for one that matches nothing
FanOut_unfiltered_skipped(webhooks, event_id, event_type, t) ==
    IF webhooks = <<>> THEN <<>>
    ELSE LET w == Head(webhooks)
             rest == FanOut_unfiltered_skipped(Tail(webhooks), event_id, event_type, t)
         IN IF event_type \notin w.event_types
            THEN rest
            ELSE <<OutboxEntry(w, event_id, event_type, t)>> \o rest

RECURSIVE FanOut(_, _, _, _)
\* the loop of add_event over the registered webhooks, in registration order
FanOut(webhooks, event_id, event_type, t) ==
    IF webhooks = <<>> THEN <<>>
    ELSE LET w == Head(webhooks)
             rest == FanOut(Tail(webhooks), event_id, event_type, t)
         IN IF w.event_types # {} /\ event_type \notin w.event_types
            THEN rest
            ELSE <<OutboxEntry(w, event_id, event_type, t)>> \o rest

\* InMemoryStore.add_event: append the event, fan it out to the outbox
add_event(s, t, event_type, market_id, bot_id) ==
    [s EXCEPT !.events = Append(@, [event_type |-> event_type,
                                    market_id |-> market_id, bot_id |-> bot_id]),
              !.outbox = @ \o FanOut(s.webhooks, Len(s.events) + 1, event_type, t)]

\* InMemoryStore.add_ledger_entry
add_ledger_entry(s, bot_id, market_id, delta_bdc, reason) ==
    [s EXCEPT !.ledger[bot_id] = Append(@, [market_id |-> market_id,
                                            delta_bdc |-> delta_bdc, reason |-> reason])]

\* add_treasury_entry that keeps only the latest entry
add_treasury_entry_latest(s, market_id, delta_bdc, reason) ==
    [s EXCEPT !.treasury_ledger = <<[market_id |-> market_id,
                                     delta_bdc |-> delta_bdc, reason |-> reason]>>]

\* InMemoryStore.add_treasury_entry
add_treasury_entry(s, market_id, delta_bdc, reason) ==
    [s EXCEPT !.treasury_ledger = Append(@, [market_id |-> market_id,
                                             delta_bdc |-> delta_bdc, reason |-> reason])]

RECURSIVE CloseEach_reclosing(_, _, _)
\* the loop of close_expired_markets that tests only closes_at, not the status
CloseEach_reclosing(s, t, i) ==
    IF i > Len(s.markets) THEN s
    ELSE IF s.markets[i].status # "resolved" /\ t >= s.markets[i].closes_at
         THEN CloseEach_reclosing(
                  add_event([s EXCEPT !.markets[i].status = "closed"], t,
                            "market_closed", i, s.markets[i].creator_bot_id),
                  t, i + 1)
         ELSE CloseEach_reclosing(s, t, i + 1)

RECURSIVE CloseEach_after(_, _, _)
\* the loop of close_expired_markets that closes a market only after closes_at
CloseEach_after(s, t, i) ==
    IF i > Len(s.markets) THEN s
    ELSE IF s.markets[i].status = "open" /\ t > s.markets[i].closes_at
         THEN CloseEach_after(
                  add_event([s EXCEPT !.markets[i].status = "closed"], t,
                            "market_closed", i, s.markets[i].creator_bot_id),
                  t, i + 1)
         ELSE CloseEach_after(s, t, i + 1)

RECURSIVE CloseEach(_, _, _)
\* the loop of close_expired_markets from market i on, in dict (creation) order
CloseEach(s, t, i) ==
    IF i > Len(s.markets) THEN s
    ELSE IF s.markets[i].status = "open" /\ t >= s.markets[i].closes_at
         THEN CloseEach(
                  add_event([s EXCEPT !.markets[i].status = "closed"], t,
                            "market_closed", i, s.markets[i].creator_bot_id),
                  t, i + 1)
         ELSE CloseEach(s, t, i + 1)

\* InMemoryStore.close_expired_markets
close_expired_markets(s, t) == CloseEach(s, t, 1)

\* --------------------------------------------------- alerts, limits, stake
\* record_alert: the alert and its alert_triggered event
record_alert(s, t, alert_type, bot_id) ==
    add_event([s EXCEPT !.alerts = Append(@, [alert_type |-> alert_type,
                                              bot_id |-> bot_id])],
              t, "alert_triggered", NoMarket, bot_id)

\* enforce_rate_limit that lets one request more through (> for >=)
enforce_rate_limit_late(s, t, bot_id) ==
    LET s1 == prune_bot_requests(s, t, bot_id, RATE_LIMIT_WINDOW_SECONDS)
    IN IF Len(s1.bot_request_log[bot_id])
              > s1.bot_policies[bot_id].max_requests_per_minute
       THEN [s |-> record_alert(s1, t, "rate_limit", bot_id), code |-> 429]
       ELSE [s |-> [s1 EXCEPT !.bot_request_log[bot_id] = Append(@, t)], code |-> 0]

\* enforce_rate_limit: 429 when the pruned window already holds the limit
enforce_rate_limit(s, t, bot_id) ==
    LET s1 == prune_bot_requests(s, t, bot_id, RATE_LIMIT_WINDOW_SECONDS)
    IN IF Len(s1.bot_request_log[bot_id])
              >= s1.bot_policies[bot_id].max_requests_per_minute
       THEN [s |-> record_alert(s1, t, "rate_limit", bot_id), code |-> 429]
       ELSE [s |-> [s1 EXCEPT !.bot_request_log[bot_id] = Append(@, t)], code |-> 0]

\* enforce_action_quota that lets one action more through (> for >=)
enforce_action_quota_late(s, t, bot_id, action, max_per_day) ==
    IF max_per_day <= 0 THEN [s |-> s, code |-> 0]
    ELSE LET s1 == prune_bot_actions(s, t, bot_id, action, ACTION_WINDOW_SECONDS)
         IN IF Len(s1.bot_action_log[bot_id][action]) > max_per_day
            THEN [s |-> record_alert(s1, t, "quota_exceeded", bot_id), code |-> 429]
            ELSE [s |-> s1, code |-> 0]

\* enforce_action_quota: 429 when the trailing day already holds the quota
enforce_action_quota(s, t, bot_id, action, max_per_day) ==
    IF max_per_day <= 0 THEN [s |-> s, code |-> 0]
    ELSE LET s1 == prune_bot_actions(s, t, bot_id, action, ACTION_WINDOW_SECONDS)
         IN IF Len(s1.bot_action_log[bot_id][action]) >= max_per_day
            THEN [s |-> record_alert(s1, t, "quota_exceeded", bot_id), code |-> 429]
            ELSE [s |-> s1, code |-> 0]

\* record_action
record_action(s, t, bot_id, action) ==
    LET s1 == prune_bot_actions(s, t, bot_id, action, ACTION_WINDOW_SECONDS)
    IN [s1 EXCEPT !.bot_action_log[bot_id][action] = Append(@, t)]

\* the gate that asks for the balance and for the reputation: 403 when either
\* is short
enforce_stake_requirements_either(s, t, bot_id, min_balance_bdc, min_reputation_score) ==
    IF RLt(s.bots[bot_id].wallet_balance_bdc, min_balance_bdc)
       \/ RLt(s.bots[bot_id].reputation_score, min_reputation_score)
    THEN [s |-> record_alert(s, t, "stake_requirement", bot_id), code |-> 403]
    ELSE [s |-> s, code |-> 0]

\* enforce_stake_requirements: 403 when balance and reputation are both short
enforce_stake_requirements(s, t, bot_id, min_balance_bdc, min_reputation_score) ==
    IF RLt(s.bots[bot_id].wallet_balance_bdc, min_balance_bdc)
       /\ RLt(s.bots[bot_id].reputation_score, min_reputation_score)
    THEN [s |-> record_alert(s, t, "stake_requirement", bot_id), code |-> 403]
    ELSE [s |-> s, code |-> 0]

\* apply_stake without the bot's ledger entry
apply_stake_unrecorded(s, t, bot_id, amount_bdc, reason, market_id) ==
    IF RLe(amount_bdc, R(0)) THEN [s |-> s, code |-> 0]
    ELSE IF RLt(s.bots[bot_id].wallet_balance_bdc, amount_bdc)
    THEN [s |-> record_alert(s, t, "stake_requirement", bot_id), code |-> 403]
    ELSE LET s1 == [s EXCEPT !.bots[bot_id].wallet_balance_bdc = RSub(@, amount_bdc)]
             s3 == [s1 EXCEPT !.treasury_balance_bdc = RAdd(@, amount_bdc)]
         IN [s |-> add_treasury_entry(s3, market_id, amount_bdc, reason), code |-> 0]

\* apply_stake without the test of the balance
apply_stake_overdrawn(s, t, bot_id, amount_bdc, reason, market_id) ==
    IF RLe(amount_bdc, R(0)) THEN [s |-> s, code |-> 0]
    ELSE LET s1 == [s EXCEPT !.bots[bot_id].wallet_balance_bdc = RSub(@, amount_bdc)]
             s2 == add_ledger_entry(s1, bot_id, market_id, RSub(R(0), amount_bdc), reason)
             s3 == [s2 EXCEPT !.treasury_balance_bdc = RAdd(@, amount_bdc)]
         IN [s |-> add_treasury_entry(s3, market_id, amount_bdc, reason), code |-> 0]

\* the stake charge that debits the wallet before it looks at the balance
apply_stake_debit_first(s, t, bot_id, amount_bdc, reason, market_id) ==
    IF RLe(amount_bdc, R(0)) THEN [s |-> s, code |-> 0]
    ELSE LET s1 == [s EXCEPT !.bots[bot_id].wallet_balance_bdc = RSub(@, amount_bdc)]
             s2 == add_ledger_entry(s1, bot_id, market_id, RSub(R(0), amount_bdc), reason)
             s3 == [s2 EXCEPT !.treasury_balance_bdc = RAdd(@, amount_bdc)]
         IN IF RLt(s.bots[bot_id].wallet_balance_bdc, amount_bdc)
            THEN [s |-> record_alert(s1, t, "stake_requirement", bot_id), code |-> 403]
            ELSE [s |-> add_treasury_entry(s3, market_id, amount_bdc, reason), code |-> 0]

\* apply_stake: move amount_bdc from the bot to the treasury
apply_stake(s, t, bot_id, amount_bdc, reason, market_id) ==
    IF RLe(amount_bdc, R(0)) THEN [s |-> s, code |-> 0]
    ELSE IF RLt(s.bots[bot_id].wallet_balance_bdc, amount_bdc)
    THEN [s |-> record_alert(s, t, "stake_requirement", bot_id), code |-> 403]
    ELSE LET s1 == [s EXCEPT !.bots[bot_id].wallet_balance_bdc = RSub(@, amount_bdc)]
             s2 == add_ledger_entry(s1, bot_id, market_id, RSub(R(0), amount_bdc), reason)
             s3 == [s2 EXCEPT !.treasury_balance_bdc = RAdd(@, amount_bdc)]
         IN [s |-> add_treasury_entry(s3, market_id, amount_bdc, reason), code |-> 0]

\* the count of the creator's markets that have closed and await resolution
count_open_markets_counting_closed(s, creator_bot_id) ==
    Cardinality({i \in 1..Len(s.markets) :
                    /\ s.markets[i].creator_bot_id = creator_bot_id
                    /\ s.markets[i].status = "closed"})

\* count_open_markets
count_open_markets(s, creator_bot_id) ==
    Cardinality({i \in 1..Len(s.markets) :
                    /\ s.markets[i].creator_bot_id = creator_bot_id
                    /\ s.markets[i].status = "open"})

\* authenticate_bot that turns a paused bot away only where the caller has to
\* be active
authenticate_bot_paused_unless_active(s, t, action_bot_id, request_bot_id, key_ok, require_active) ==
    IF action_bot_id # request_bot_id THEN [s |-> s, code |-> 403]
    ELSE IF action_bot_id \notin DOMAIN s.bots THEN [s |-> s, code |-> 404]
    ELSE IF ~key_ok THEN [s |-> s, code |-> 401]
    ELSE IF require_active /\ s.bot_policies[action_bot_id].status # "active"
    THEN [s |-> s, code |-> 403]
    ELSE enforce_rate_limit(s, t, action_bot_id)

\* authenticate_bot without the tests of the policy's status
authenticate_bot_any_status(s, t, action_bot_id, request_bot_id, key_ok, require_active) ==
    IF action_bot_id # request_bot_id THEN [s |-> s, code |-> 403]
    ELSE IF action_bot_id \notin DOMAIN s.bots THEN [s |-> s, code |-> 404]
    ELSE IF ~key_ok THEN [s |-> s, code |-> 401]
    ELSE enforce_rate_limit(s, t, action_bot_id)

\* authenticate_bot: 403 / 404 / 401 / 403 / 403, then the rate limit
authenticate_bot(s, t, action_bot_id, request_bot_id, key_ok, require_active) ==
    IF action_bot_id # request_bot_id THEN [s |-> s, code |-> 403]
    ELSE IF action_bot_id \notin DOMAIN s.bots THEN [s |-> s, code |-> 404]
    ELSE IF ~key_ok THEN [s |-> s, code |-> 401]
    ELSE IF s.bot_policies[action_bot_id].status = "paused" THEN [s |-> s, code |-> 403]
    ELSE IF require_active /\ s.bot_policies[action_bot_id].status # "active"
    THEN [s |-> s, code |-> 403]
    ELSE enforce_rate_limit(s, t, action_bot_id)

\* -------------------------------------------------------------- settlement
RECURSIVE SumValues(_)
\* sum(d.values()) of a dict of amounts
SumValues(d) ==
    IF DOMAIN d = {} THEN R(0)
    ELSE LET k == CHOOSE x \in DOMAIN d : TRUE
         IN RAdd(d[k], SumValues([x \in DOMAIN d \ {k} |-> d[x]]))

\* market_total_pool: sum(market.outcome_pools.values())
market_total_pool(market) == SumValues(market.outcome_pools)

\* payout_amount without the share of the whole pool: the stake is handed back
payout_amount_stake_back(amount_bdc, winning_pool, total_pool) == amount_bdc

\* share = trade.amount_bdc / winning_pool; payout_amount = share * total_pool
payout_amount(amount_bdc, winning_pool, total_pool) ==
    RMul(RDiv(amount_bdc, winning_pool), total_pool)

RECURSIVE PayEach(_, _, _, _, _, _)
\* the payout loop of settle_market_resolution over the market's trades from
\* trade i on: credit the bot of every trade on the resolved outcome
PayEach(s, m, resolved_outcome_id, winning_pool, total_pool, i) ==
    IF i > Len(s.trades[m]) THEN [s |-> s, paid |-> R(0)]
    ELSE LET trade == s.trades[m][i]
         IN IF trade.outcome_id # resolved_outcome_id
            THEN PayEach(s, m, resolved_outcome_id, winning_pool, total_pool, i + 1)
            ELSE LET amount == payout_amount(trade.amount_bdc, winning_pool, total_pool)
                     s1 == [s EXCEPT !.bots[trade.bot_id].wallet_balance_bdc =
                                         RAdd(@, amount)]
                     s2 == add_ledger_entry(s1, trade.bot_id, m, amount, "payout")
                     r == PayEach(s2, m, resolved_outcome_id, winning_pool,
                                  total_pool, i + 1)
                 IN [s |-> r.s, paid |-> RAdd(amount, r.paid)]

\* amount without the division by weight_sum
liquidity_amount_unnormalised(liquidity_distribution, weight, weight_sum) ==
    RMul(liquidity_distribution, weight)

\* amount = liquidity_distribution * (weight / weight_sum)
liquidity_amount(liquidity_distribution, weight, weight_sum) ==
    RMul(liquidity_distribution, RDiv(weight, weight_sum))

RECURSIVE DistributeEach(_, _, _, _, _)
\* the loop over config.liquidity_bot_weights.items() for the bots in todo
DistributeEach(s, m, liquidity_distribution, weight_sum, todo) ==
    IF todo = {} THEN s
    ELSE LET bot_id == CHOOSE b \in todo : TRUE
             weight == s.treasury_config.liquidity_bot_weights[bot_id]
             amount == liquidity_amount(liquidity_distribution, weight, weight_sum)
             rest == todo \ {bot_id}
         IN IF RLe(weight, R(0)) \/ RLe(amount, R(0))
            THEN DistributeEach(s, m, liquidity_distribution, weight_sum, rest)
            ELSE DistributeEach(
                     add_ledger_entry(
                         [s EXCEPT !.bots[bot_id].wallet_balance_bdc = RAdd(@, amount)],
                         bot_id, m, amount, "liquidity_distribution"),
                     m, liquidity_distribution, weight_sum, rest)

\* treasury_amount without the liquidity share taken off
treasury_amount_whole(remainder, liquidity_distribution) == remainder

\* treasury_amount = remainder - liquidity_distribution
treasury_amount(remainder, liquidity_distribution) ==
    RSub(remainder, liquidity_distribution)

\* the test of the treasury credit without config.send_unpaid_to_treasury
credits_treasury_always(config, amount) == RLt(R(0), amount)

\* if config.send_unpaid_to_treasury and treasury_amount > 0
credits_treasury(config, amount) ==
    config.send_unpaid_to_treasury /\ RLt(R(0), amount)

\* the remainder branch of settle_market_resolution (remainder > 0): the
\* liquidity share to the configured bots, the leftover to the treasury
distribute_remainder(s, m, remainder) ==
    LET config == s.treasury_config
        weight_sum == SumValues(config.liquidity_bot_weights)
        distributes == /\ RLt(R(0), config.liquidity_bot_allocation_pct)
                       /\ DOMAIN config.liquidity_bot_weights # {}
                       /\ RLt(R(0), weight_sum)
        liquidity_distribution ==
            IF distributes THEN RMul(remainder, config.liquidity_bot_allocation_pct)
            ELSE R(0)
        s1 == IF distributes
              THEN DistributeEach(s, m, liquidity_distribution, weight_sum,
                                  DOMAIN config.liquidity_bot_weights)
              ELSE s
        amount == treasury_amount(remainder, liquidity_distribution)
    IN IF credits_treasury(config, amount)
       THEN add_treasury_entry(
                [s1 EXCEPT !.treasury_balance_bdc = RAdd(@, amount)],
                m, amount, "resolution_remainder")
       ELSE s1

\* settle_market_resolution: mark the market resolved, store the Resolution,
\* emit market_resolved, pay the winners, distribute the remainder
settle_market_resolution(s, t, m, resolved_outcome_id, resolver_bot_ids, actor_bot_id, votes) ==
    LET s1 == [s EXCEPT !.markets[m].status = "resolved",
                        !.markets[m].resolved_at = t,
                        !.resolutions = Put(@, m,
                            [ resolved_outcome_id |-> resolved_outcome_id,
                              resolver_bot_ids |-> resolver_bot_ids,
                              timestamp |-> t ])]
        s2 == add_event(s1, t, "market_resolved", m, actor_bot_id)
        s3 == IF votes # <<>> THEN [s2 EXCEPT !.resolution_votes = Put(@, m, votes)]
              ELSE s2
        market == s3.markets[m]
        total_pool == market_total_pool(market)
        winning_pool == IF resolved_outcome_id \in DOMAIN market.outcome_pools
                        THEN market.outcome_pools[resolved_outcome_id] ELSE R(0)
        paid == IF RLt(R(0), winning_pool)
                THEN PayEach(s3, m, resolved_outcome_id, winning_pool, total_pool, 1)
                ELSE [s |-> s3, paid |-> R(0)]
        remainder == RSub(total_pool, paid.paid)
    IN IF RLt(R(0), remainder) THEN distribute_remainder(paid.s, m, remainder)
       ELSE paid.s

\* the order of Python's str comparison on the outcome ids of the model
StrRank(o) == CASE o = "MAYBE" -> 1 [] o = "NO" -> 2 [] o = "YES" -> 3

\* select_auto_resolve_outcome: max(outcome_pools.items(), key=(pool, outcome id))
\* (outcome_pools is never empty: add_market fills it for >= 2 outcomes)
select_auto_resolve_outcome(market) ==
    CHOOSE o \in DOMAIN market.outcome_pools :
        \A p \in DOMAIN market.outcome_pools :
            \/ RLt(market.outcome_pools[p], market.outcome_pools[o])
            \/ (market.outcome_pools[p] = market.outcome_pools[o]
                /\ StrRank(p) <= StrRank(o))

RECURSIVE AutoEach_any_policy(_, _, _)
\* the loop of auto_resolve_markets without its test of the resolver policy
AutoEach_any_policy(s, t, i) ==
    IF i > Len(s.markets) THEN s
    ELSE IF \/ s.markets[i].status # "closed"
            \/ i \in DOMAIN s.resolutions
         THEN AutoEach_any_policy(s, t, i + 1)
         ELSE AutoEach_any_policy(
                  settle_market_resolution(
                      s, t, i, select_auto_resolve_outcome(s.markets[i]),
                      <<s.markets[i].creator_bot_id>>, s.markets[i].creator_bot_id, <<>>),
                  t, i + 1)

RECURSIVE AutoEach(_, _, _)
\* the loop of auto_resolve_markets from market i on
AutoEach(s, t, i) ==
    IF i > Len(s.markets) THEN s
    ELSE IF \/ s.markets[i].status # "closed"
            \/ s.markets[i].resolver_policy # "single"
            \/ i \in DOMAIN s.resolutions
         THEN AutoEach(s, t, i + 1)
         ELSE AutoEach(
                  settle_market_resolution(
                      s, t, i, select_auto_resolve_outcome(s.markets[i]),
                      <<s.markets[i].creator_bot_id>>, s.markets[i].creator_bot_id, <<>>),
                  t, i + 1)

\* auto_resolve_markets
auto_resolve_markets(s, t) == AutoEach(s, t, 1)

\* one iteration of market_lifecycle_job
market_lifecycle_job(s, t, auto) ==
    LET s1 == close_expired_markets(s, t)
    IN IF auto THEN auto_resolve_markets(s1, t) ELSE s1

\* ------------------------------------------------------- webhook delivery
\* InMemoryStore.add_webhook: webhooks[bot_id].append(webhook). The sequence
\* keeps the order in which add_event walks webhooks.values(): the bots by
\* their first registration, the registrations of a bot together and in order
add_webhook(s, webhook) ==
    LET own == {i \in 1..Len(s.webhooks) : s.webhooks[i].bot_id = webhook.bot_id}
        last == IF own = {} THEN Len(s.webhooks)
                ELSE CHOOSE i \in own : \A j \in own : j <= i
    IN [s EXCEPT !.webhooks = SubSeq(@, 1, last) \o <<webhook>>
                                  \o SubSeq(@, last + 1, Len(@))]

\* an httpx.RequestError instead of a response (no status code)
NetworkError == 0

RECURSIVE Pow2(_)
\* 2 ** n
Pow2(n) == IF n <= 0 THEN 1 ELSE 2 * Pow2(n - 1)

\* the attempt of webhook_delivery_job that leaves next_attempt_at as it was
attempt_delivery_no_backoff(entry, t, response) ==
    IF response # NetworkError /\ 200 <= response /\ response < 300
    THEN [entry EXCEPT !.status = "delivered"]
    ELSE [entry EXCEPT !.attempts = @ + 1,
                       !.status = IF entry.attempts + 1 >= WEBHOOK_MAX_ATTEMPTS
                                  THEN "failed" ELSE "retrying"]

\* an attempt that counts every POST, the delivered one included
attempt_delivery_counting_all(entry, t, response) ==
    IF response # NetworkError /\ 200 <= response /\ response < 300
    THEN [entry EXCEPT !.attempts = @ + 1, !.status = "delivered"]
    ELSE [entry EXCEPT !.attempts = @ + 1,
                       !.next_attempt_at =
                           t + WEBHOOK_BASE_BACKOFF_SECONDS * Pow2(entry.attempts),
                       !.status = IF entry.attempts + 1 >= WEBHOOK_MAX_ATTEMPTS
                                  THEN "failed" ELSE "retrying"]

\* an attempt that never gives an entry up: it stays retrying whatever attempts
attempt_delivery_unlimited(entry, t, response) ==
    IF response # NetworkError /\ 200 <= response /\ response < 300
    THEN [entry EXCEPT !.status = "delivered"]
    ELSE [entry EXCEPT !.attempts = @ + 1,
                       !.next_attempt_at =
                           t + WEBHOOK_BASE_BACKOFF_SECONDS * Pow2(entry.attempts),
                       !.status = "retrying"]

\* one attempt of webhook_delivery_job: the POST of an entry answered with
\* response; delivered on 2xx, else one attempt more, the backoff, and failed
\* at WEBHOOK_MAX_ATTEMPTS
attempt_delivery(entry, t, response) ==
    IF response # NetworkError /\ 200 <= response /\ response < 300
    THEN [entry EXCEPT !.status = "delivered"]
    ELSE [entry EXCEPT !.attempts = @ + 1,
                       !.next_attempt_at =
                           t + WEBHOOK_BASE_BACKOFF_SECONDS * Pow2(entry.attempts),
                       !.status = IF entry.attempts + 1 >= WEBHOOK_MAX_ATTEMPTS
                                  THEN "failed" ELSE "retrying"]

\* the test of the worker that looks at next_attempt_at alone
skips_entry_when_early(entry, t) == entry.next_attempt_at > t

\* the test of the worker that looks at the status alone
skips_entry_when_terminal(entry, t) == entry.status \notin {"pending", "retrying"}

\* the worker skips the entry: neither pending nor retrying, or not yet due
skips_entry(entry, t) ==
    \/ entry.status \notin {"pending", "retrying"}
    \/ entry.next_attempt_at > t

RECURSIVE DeliverEach(_, _, _, _, _)
\* the loop of webhook_delivery_job over list(store.outbox) from entry i on,
\* with the response each POST gets
DeliverEach(s, m, t, responses, i) ==
    IF i > Len(s.outbox) THEN [s |-> s, metrics |-> m]
    ELSE IF skips_entry(s.outbox[i], t) THEN DeliverEach(s, m, t, responses, i + 1)
    ELSE LET entry == attempt_delivery(s.outbox[i], t, responses[i])
         IN DeliverEach(
                [s EXCEPT !.outbox[i] = entry],
                [m EXCEPT !.webhook_attempts = @ + 1,
                          !.webhook_failures =
                              IF entry.status = "failed" THEN @ + 1 ELSE @],
                t, responses, i + 1)

\* one iteration of webhook_delivery_job
webhook_delivery_job(s, m, t, responses) == DeliverEach(s, m, t, responses, 1)

\* ---------------------------------------------------------------- handlers
\* POST /bots: a new inactive bot with an empty wallet and the default policy
create_bot(s, bot_id) ==
    [s EXCEPT !.bots = Put(@, bot_id, [ wallet_balance_bdc |-> R(0),
                                        reputation_score |-> R(0),
                                        status |-> "inactive" ]),
              !.bot_policies = Put(@, bot_id, default_bot_policy("inactive"))]

\* POST /bots/{bot_id}/deposit
deposit_bdc(s, t, bot_id, amount_bdc, reason, request_bot_id, key_ok) ==
    LET auth == authenticate_bot(s, t, bot_id, request_bot_id, key_ok, FALSE)
    IN IF auth.code # 0 THEN auth
       ELSE LET s1 == [auth.s EXCEPT !.bots[bot_id].wallet_balance_bdc =
                                         RAdd(@, amount_bdc)]
            IN [s |-> add_ledger_entry(s1, bot_id, NoMarket, amount_bdc, reason),
                code |-> 200]

\* PUT /bots/{bot_id}/policy
update_bot_policy(s, t, bot_id, payload, request_bot_id, key_ok) ==
    LET auth == authenticate_bot(s, t, bot_id, request_bot_id, key_ok, FALSE)
    IN IF auth.code # 0 THEN auth
       ELSE LET previous_policy == auth.s.bot_policies[bot_id]
                s1 == [auth.s EXCEPT !.bot_policies[bot_id] = payload]
            IN IF payload.status # previous_policy.status
               THEN [s |-> add_event([s1 EXCEPT !.bots[bot_id].status = payload.status],
                                     t, "bot_status_changed", NoMarket, bot_id),
                     code |-> 200]
               ELSE [s |-> s1, code |-> 200]

\* POST /bots/{bot_id}/webhooks
register_webhook(s, t, bot_id, payload, request_bot_id, key_ok) ==
    LET auth == authenticate_bot(s, t, bot_id, request_bot_id, key_ok, FALSE)
    IN IF auth.code # 0 THEN auth
       ELSE [s |-> add_webhook(auth.s, [ id |-> Len(auth.s.webhooks) + 1,
                                         bot_id |-> bot_id,
                                         event_types |-> payload.event_types,
                                         created_at |-> t ]),
             code |-> 200]

\* validate_treasury_config: 400 for an allocation without weights or a
\* weight <= 0, 404 for a weight of an unknown bot
validate_treasury_config(s, config) ==
    IF RLt(R(0), config.liquidity_bot_allocation_pct)
       /\ DOMAIN config.liquidity_bot_weights = {}
    THEN 400
    ELSE IF \E b \in DOMAIN config.liquidity_bot_weights :
                RLe(config.liquidity_bot_weights[b], R(0))
    THEN 400
    ELSE IF \E b \in DOMAIN config.liquidity_bot_weights : b \notin DOMAIN s.bots
    THEN 404
    ELSE 0

\* PUT /treasury/config
update_treasury_config(s, t, payload, request_bot_id, key_ok) ==
    LET auth == authenticate_bot(s, t, request_bot_id, request_bot_id, key_ok, FALSE)
    IN IF auth.code # 0 THEN auth
       ELSE LET gate == enforce_stake_requirements(
                            auth.s, t, request_bot_id, R(MIN_BOT_BALANCE_BDC),
                            R(MIN_BOT_REPUTATION_SCORE))
            IN IF gate.code # 0 THEN gate
               ELSE IF validate_treasury_config(gate.s, payload) # 0
               THEN [s |-> gate.s, code |-> validate_treasury_config(gate.s, payload)]
               ELSE [s |-> [gate.s EXCEPT !.treasury_config = payload], code |-> 200]

\* InMemoryStore.add_market: a market that comes without pools gets a pool of
\* 0 for every outcome (store.trades.get(market.id, []) is empty for it)
add_market(s, market) ==
    [s EXCEPT !.markets = Append(@,
                  IF DOMAIN market.outcome_pools = {}
                  THEN [market EXCEPT !.outcome_pools =
                           [o \in Range(market.outcomes) |-> R(0)]]
                  ELSE market),
              !.trades = Append(@, <<>>)]

\* POST /markets
create_market(s, t, payload, request_bot_id, key_ok) ==
    LET auth == authenticate_bot(s, t, payload.creator_bot_id, request_bot_id,
                                 key_ok, TRUE)
    IN IF auth.code # 0 THEN auth
       ELSE
       LET creator == payload.creator_bot_id
           policy == auth.s.bot_policies[creator]
           gate == enforce_stake_requirements(
                       auth.s, t, creator, policy.min_balance_bdc_for_market,
                       policy.min_reputation_score_for_market)
       IN IF gate.code # 0 THEN gate
          ELSE
          LET quota == enforce_action_quota(gate.s, t, creator, "market_create",
                                            policy.max_markets_per_day)
          IN IF quota.code # 0 THEN quota
             ELSE IF policy.max_active_markets # 0
                     /\ count_open_markets(quota.s, creator) >= policy.max_active_markets
             THEN [s |-> quota.s, code |-> 403]
             ELSE
             LET stake == apply_stake(quota.s, t, creator, policy.stake_bdc_market,
                                      "market_stake", NoMarket)
             IN IF stake.code # 0 THEN stake
                ELSE
                LET s1 == add_market(stake.s,
                              [ creator_bot_id |-> creator,
                                status |-> "open",
                                outcomes |-> payload.outcomes,
                                closes_at |-> payload.closes_at,
                                resolved_at |-> NoTime,
                                resolver_policy |-> payload.resolver_policy,
                                outcome_pools |-> <<>>,
                                stake_bdc |-> policy.stake_bdc_market ])
                    s2 == add_event(s1, t, "market_created", Len(s1.markets), creator)
                IN [s |-> record_action(s2, t, creator, "market_create"), code |-> 200]

\* market.outcome_pools[payload.outcome_id] = payload.amount_bdc
add_to_pool_overwriting(outcome_pools, outcome_id, amount_bdc) ==
    [outcome_pools EXCEPT ![outcome_id] = amount_bdc]

\* market.outcome_pools[payload.outcome_id] += payload.amount_bdc
add_to_pool(outcome_pools, outcome_id, amount_bdc) ==
    [outcome_pools EXCEPT ![outcome_id] = RAdd(@, amount_bdc)]

\* delta_bdc = payload.amount_bdc
trade_delta_unsigned(amount_bdc) == amount_bdc

\* delta_bdc = -payload.amount_bdc
trade_delta(amount_bdc) == RSub(R(0), amount_bdc)

\* the price against the pools of the other outcomes (the odds)
trade_price_odds(outcome_pools, outcome_id) ==
    LET total_pool == SumValues(outcome_pools)
        others == RSub(total_pool, outcome_pools[outcome_id])
    IN IF others # R(0) THEN RDiv(outcome_pools[outcome_id], others) ELSE R(1)

\* price = outcome_pools[outcome] / total_pool if total_pool else 0.0
trade_price(outcome_pools, outcome_id) ==
    LET total_pool == SumValues(outcome_pools)
    IN IF total_pool # R(0) THEN RDiv(outcome_pools[outcome_id], total_pool) ELSE R(0)

\* the balance check that looks only for an empty wallet
insufficient_balance_empty(wallet_balance_bdc, amount_bdc) ==
    RLe(wallet_balance_bdc, R(0))

\* if bot.wallet_balance_bdc < payload.amount_bdc
insufficient_balance(wallet_balance_bdc, amount_bdc) ==
    RLt(wallet_balance_bdc, amount_bdc)

\* create_trade after its test of the market's status: the authentication, the
\* checks of the outcome, the balance and the policy limit, the debit, the
\* pool, the trade, the price_changed event and the ledger entry
trade_on_open_market(s0, t, m, payload, request_bot_id, key_ok) ==
       LET auth == authenticate_bot(s0, t, payload.bot_id, request_bot_id, key_ok, TRUE)
       IN IF auth.code # 0 THEN auth
          ELSE
          LET bot_id == payload.bot_id
              policy == auth.s.bot_policies[bot_id]
          IN IF payload.outcome_id \notin Range(auth.s.markets[m].outcomes)
             THEN [s |-> auth.s, code |-> 400]
             ELSE IF insufficient_balance(auth.s.bots[bot_id].wallet_balance_bdc,
                                          payload.amount_bdc)
             THEN [s |-> auth.s, code |-> 400]
             ELSE IF RLt(policy.max_trade_bdc, payload.amount_bdc)
             THEN [s |-> auth.s, code |-> 403]
             ELSE
             LET s1 == [auth.s EXCEPT
                           !.bots[bot_id].wallet_balance_bdc = RSub(@, payload.amount_bdc),
                           !.markets[m].outcome_pools =
                               add_to_pool(@, payload.outcome_id, payload.amount_bdc)]
                 price == trade_price(s1.markets[m].outcome_pools, payload.outcome_id)
                 s2 == [s1 EXCEPT !.trades[m] = Append(@,
                           [ bot_id |-> bot_id, outcome_id |-> payload.outcome_id,
                             amount_bdc |-> payload.amount_bdc, price |-> price ])]
                 s3 == add_event(s2, t, "price_changed", m, bot_id)
             IN [s |-> add_ledger_entry(s3, bot_id, m,
                                        trade_delta(payload.amount_bdc), "trade"),
                 code |-> 200]

\* POST /markets/{market_id}/trades
create_trade(s, t, m, payload, request_bot_id, key_ok) ==
    LET s0 == close_expired_markets(s, t)
    IN IF m \notin 1..Len(s0.markets) THEN [s |-> s0, code |-> 404]
       ELSE IF s0.markets[m].status # "open" THEN [s |-> s0, code |-> 409]
       ELSE trade_on_open_market(s0, t, m, payload, request_bot_id, key_ok)

\* the number of votes for an outcome: outcome_counts[outcome]
outcome_count(votes, o) ==
    Cardinality({i \in 1..Len(votes) : votes[i].outcome_id = o})

RECURSIVE outcome_weight(_, _, _)
\* the summed reputation of the votes for an outcome: outcome_weights[outcome]
outcome_weight(s, votes, o) ==
    IF votes = <<>> THEN R(0)
    ELSE LET rest == outcome_weight(s, Tail(votes), o)
         IN IF Head(votes).outcome_id = o
            THEN RAdd(s.bots[Head(votes).resolver_bot_id].reputation_score, rest)
            ELSE rest

\* the majority decision that takes the top count as it is (a plurality)
majority_outcome_plurality(votes) ==
    LET voted == {votes[i].outcome_id : i \in 1..Len(votes)}
        top == CHOOSE o \in voted :
                   \A p \in voted : outcome_count(votes, p) <= outcome_count(votes, o)
    IN [code |-> 0, outcome |-> top]

\* the decision of the majority policy: max(outcome_counts.items(), key=count),
\* 409 unless the top count exceeds half the votes
majority_outcome(votes) ==
    LET voted == {votes[i].outcome_id : i \in 1..Len(votes)}
        top == CHOOSE o \in voted :
                   \A p \in voted : outcome_count(votes, p) <= outcome_count(votes, o)
    IN IF 2 * outcome_count(votes, top) <= Len(votes)
       THEN [code |-> 409, outcome |-> None]
       ELSE [code |-> 0, outcome |-> top]

\* the consensus decision that counts the votes and leaves the reputations out
consensus_outcome_by_count(s, votes) == majority_outcome(votes)

\* the decision of the consensus policy: 400 for a total weight <= 0, 409
\* unless the top weight exceeds half the total weight
consensus_outcome(s, votes) ==
    LET voted == {votes[i].outcome_id : i \in 1..Len(votes)}
        total_weight == SumValues([o \in voted |-> outcome_weight(s, votes, o)])
        top == CHOOSE o \in voted :
                   \A p \in voted : RLe(outcome_weight(s, votes, p),
                                        outcome_weight(s, votes, o))
    IN IF RLe(total_weight, R(0)) THEN [code |-> 400, outcome |-> None]
       ELSE IF RLe(RMul(R(2), outcome_weight(s, votes, top)), total_weight)
       THEN [code |-> 409, outcome |-> None]
       ELSE [code |-> 0, outcome |-> top]

\* the test of the resolver count that is content with one resolver
too_few_resolvers_for_one(resolver_bot_ids) == Len(resolver_bot_ids) < 1

\* if len(payload.resolver_bot_ids) < 2 (majority and consensus)
too_few_resolvers(resolver_bot_ids) == Len(resolver_bot_ids) < 2

\* the voters of a ballot
voters(votes) == {votes[i].resolver_bot_id : i \in 1..Len(votes)}

\* the test of the missing votes that finds none missing
missing_votes_ignored(resolver_bot_ids, votes) == {}

\* missing_votes = set(payload.resolver_bot_ids) - {vote.resolver_bot_id ...}
missing_votes(resolver_bot_ids, votes) == Range(resolver_bot_ids) \ voters(votes)

\* the policy branch of resolve_market: the outcome the call resolves to, or
\* the status code that rejects it
decide_outcome(s, market, payload) ==
    IF market.resolver_policy = "single"
    THEN IF Len(payload.resolver_bot_ids) # 1 THEN [code |-> 400, outcome |-> None]
         ELSE IF payload.resolved_outcome_id = None THEN [code |-> 400, outcome |-> None]
         ELSE IF payload.resolved_outcome_id \notin Range(market.outcomes)
         THEN [code |-> 400, outcome |-> None]
         ELSE [code |-> 0, outcome |-> payload.resolved_outcome_id]
    ELSE IF too_few_resolvers(payload.resolver_bot_ids)
         THEN [code |-> 400, outcome |-> None]
         ELSE IF payload.votes = <<>> THEN [code |-> 400, outcome |-> None]
         ELSE IF Cardinality(voters(payload.votes)) # Len(payload.votes)
         THEN [code |-> 400, outcome |-> None]
         ELSE IF missing_votes(payload.resolver_bot_ids, payload.votes) # {}
         THEN [code |-> 400, outcome |-> None]
         ELSE IF \E i \in 1..Len(payload.votes) :
                     \/ payload.votes[i].resolver_bot_id
                            \notin Range(payload.resolver_bot_ids)
                     \/ payload.votes[i].outcome_id \notin Range(market.outcomes)
         THEN [code |-> 400, outcome |-> None]
         ELSE IF market.resolver_policy = "majority"
         THEN majority_outcome(payload.votes)
         ELSE consensus_outcome(s, payload.votes)

\* the end of resolve_market with the stake charged before the outcome given
\* with the call is compared with the outcome decided
finish_resolution_stake_first(s, t, m, payload, request_bot_id, resolved_outcome_id) ==
    LET stake == apply_stake(s, t, request_bot_id,
                             s.bot_policies[request_bot_id].stake_bdc_resolution,
                             "resolution_stake", m)
    IN IF stake.code # 0 THEN stake
       ELSE IF payload.resolved_outcome_id # None
               /\ payload.resolved_outcome_id # resolved_outcome_id
       THEN [s |-> stake.s, code |-> 400]
       ELSE
       LET s1 == settle_market_resolution(
                     stake.s, t, m, resolved_outcome_id,
                     payload.resolver_bot_ids, request_bot_id,
                     IF s.markets[m].resolver_policy = "single"
                     THEN <<>> ELSE payload.votes)
       IN [s |-> record_action(s1, t, request_bot_id, "resolve_market"), code |-> 200]

\* the end of resolve_market, once the policy has decided the outcome: 400 for
\* a resolved_outcome_id that contradicts it, then the stake, the settlement
\* and the record of the action
finish_resolution(s, t, m, payload, request_bot_id, resolved_outcome_id) ==
    IF payload.resolved_outcome_id # None
       /\ payload.resolved_outcome_id # resolved_outcome_id
    THEN [s |-> s, code |-> 400]
    ELSE
    LET stake == apply_stake(s, t, request_bot_id,
                             s.bot_policies[request_bot_id].stake_bdc_resolution,
                             "resolution_stake", m)
    IN IF stake.code # 0 THEN stake
       ELSE
       LET s1 == settle_market_resolution(
                     stake.s, t, m, resolved_outcome_id,
                     payload.resolver_bot_ids, request_bot_id,
                     IF s.markets[m].resolver_policy = "single"
                     THEN <<>> ELSE payload.votes)
       IN [s |-> record_action(s1, t, request_bot_id, "resolve_market"), code |-> 200]

\* resolve_market from the resolver list on, for a market that is not resolved:
\* the checks of the list and the caller, the policy's decision, the stake,
\* the settlement
resolve_unresolved_market(s0, t, m, payload, request_bot_id, key_ok) ==
       IF Cardinality(Range(payload.resolver_bot_ids)) # Len(payload.resolver_bot_ids)
       THEN [s |-> s0, code |-> 400]
       ELSE IF payload.resolver_bot_ids = <<>> THEN [s |-> s0, code |-> 400]
       ELSE IF request_bot_id \notin Range(payload.resolver_bot_ids)
       THEN [s |-> s0, code |-> 403]
       ELSE
       LET auth == authenticate_bot(s0, t, request_bot_id, request_bot_id, key_ok, TRUE)
       IN IF auth.code # 0 THEN auth
          ELSE
          LET policy == auth.s.bot_policies[request_bot_id]
              gate == enforce_stake_requirements(
                          auth.s, t, request_bot_id,
                          policy.min_balance_bdc_for_resolution,
                          policy.min_reputation_score_for_resolution)
          IN IF gate.code # 0 THEN gate
             ELSE
             LET quota == enforce_action_quota(gate.s, t, request_bot_id,
                              "resolve_market", policy.max_resolutions_per_day)
             IN IF quota.code # 0 THEN quota
                ELSE IF \E r \in Range(payload.resolver_bot_ids) :
                            r \notin DOMAIN quota.s.bots
                THEN [s |-> quota.s, code |-> 404]
                ELSE
                LET decision == decide_outcome(quota.s, quota.s.markets[m], payload)
                IN IF decision.code # 0 THEN [s |-> quota.s, code |-> decision.code]
                   ELSE finish_resolution(quota.s, t, m, payload, request_bot_id,
                                          decision.outcome)

\* resolve_market without its check of the market's status
resolve_market_unchecked(s, t, m, payload, request_bot_id, key_ok) ==
    LET s0 == close_expired_markets(s, t)
    IN IF m \notin 1..Len(s0.markets) THEN [s |-> s0, code |-> 404]
       ELSE resolve_unresolved_market(s0, t, m, payload, request_bot_id, key_ok)

\* POST /markets/{market_id}/resolve: the lazy close, 404 for an unknown
\* market, 409 for a resolved one, then the rest of the handler
resolve_market(s, t, m, payload, request_bot_id, key_ok) ==
    LET s0 == close_expired_markets(s, t)
    IN IF m \notin 1..Len(s0.markets) THEN [s |-> s0, code |-> 404]
       ELSE IF s0.markets[m].status = "resolved" THEN [s |-> s0, code |-> 409]
       ELSE resolve_unresolved_market(s0, t, m, payload, request_bot_id, key_ok)

RECURSIVE ReplayEach(_, _, _)
\* the loop of get_price_series over the trades from trade i on, replaying
\* the pools: the price of each trade against the pools after it
ReplayEach(trades, outcome_pools, i) ==
    IF i > Len(trades) THEN <<>>
    ELSE LET trade == trades[i]
             pools == [outcome_pools EXCEPT ![trade.outcome_id] =
                                                RAdd(@, trade.amount_bdc)]
             total_pool == IF SumValues(pools) # R(0) THEN SumValues(pools) ELSE R(1)
         IN <<[ outcome_id |-> trade.outcome_id,
                price |-> RDiv(pools[trade.outcome_id], total_pool),
                amount_bdc |-> trade.amount_bdc ]>>
            \o ReplayEach(trades, pools, i + 1)

\* GET /markets/{market_id}/price-series
get_price_series(s, m) ==
    ReplayEach(s.trades[m], [o \in Range(s.markets[m].outcomes) |-> R(0)], 1)

\* GET /markets, GET /markets/{market_id}: the lazy close on read
get_market(s, t) == [s |-> close_expired_markets(s, t), code |-> 200]

\* ------------------------------------------------------ the requests made
\* a request: its X-Bot-Id header, whether its X-API-Key is that bot's key,
\* and its payload
Request(request_bot_id, key_ok, payload) ==
    [request_bot_id |-> request_bot_id, key_ok |-> key_ok, payload |-> payload]

\* the policy the bots put with PUT /bots/{bot_id}/policy
ActivePolicy ==
    [default_bot_policy("active") EXCEPT
        !.max_trade_bdc = R(3),
        !.min_balance_bdc_for_resolution = R(0),
        !.stake_bdc_market = R(1),
        !.stake_bdc_resolution = R(2)]

DepositRequests ==
    { Request("b2", TRUE, [bot_id |-> "b2", amount_bdc |-> R(12)]),
      Request("b1", FALSE, [bot_id |-> "b1", amount_bdc |-> R(12)]),
      Request("b2", TRUE, [bot_id |-> "b1", amount_bdc |-> R(12)]),
      Request(Stranger, TRUE, [bot_id |-> Stranger, amount_bdc |-> R(12)]) }

\* the configurations put with PUT /treasury/config
Weights == [b \in BotIds |-> IF b = "b1" THEN R(1) ELSE R(2)]

TreasuryRequests ==
    { Request("b1", TRUE, [TreasuryConfig EXCEPT !.send_unpaid_to_treasury = FALSE]),
      Request("b2", TRUE, [ send_unpaid_to_treasury |-> TRUE,
                            liquidity_bot_allocation_pct |-> <<1, 2>>,
                            liquidity_bot_weights |-> Weights ]),
      Request("b2", TRUE, [ send_unpaid_to_treasury |-> TRUE,
                            liquidity_bot_allocation_pct |-> <<1, 2>>,
                            liquidity_bot_weights |-> <<>> ]) }

MarketCreate(b, rp, closes_at) ==
    [ creator_bot_id |-> b, outcomes |-> <<"NO", "YES">>, closes_at |-> closes_at,
      resolver_policy |-> rp ]

MarketRequests ==
    { Request("b1", TRUE, MarketCreate("b1", "single", 244)),
      Request("b2", TRUE, MarketCreate("b2", "majority", 244)),
      Request("b2", TRUE, MarketCreate("b2", "consensus", 244)) }

TradeCreate(b, o, a) == [bot_id |-> b, outcome_id |-> o, amount_bdc |-> a]

TradeRequests ==
    { Request("b1", TRUE, TradeCreate("b1", "YES", R(2))),
      Request("b1", TRUE, TradeCreate("b1", "NO", R(3))),
      Request("b2", TRUE, TradeCreate("b2", "YES", R(3))),
      Request("b2", TRUE, TradeCreate("b2", "NO", R(2))),
      Request("b1", TRUE, TradeCreate("b1", "MAYBE", R(2))),
      Request("b1", TRUE, TradeCreate("b1", "YES", R(4))),
      Request("b1", TRUE, TradeCreate("b1", "NO", R(13))),
      Request(Idle, TRUE, TradeCreate(Idle, "YES", R(2))) }

Vote(b, o) == [resolver_bot_id |-> b, outcome_id |-> o]

Resolution(ids, o, votes) ==
    [resolver_bot_ids |-> ids, resolved_outcome_id |-> o, votes |-> votes]

ResolutionRequests ==
    { Request("b1", TRUE, Resolution(<<"b1">>, "YES", <<>>)),
      Request("b2", TRUE, Resolution(<<"b2">>, "NO", <<>>)),
      Request("b1", TRUE, Resolution(<<"b1">>, None, <<>>)),
      Request("b2", TRUE, Resolution(<<"b2">>, "MAYBE", <<>>)),
      Request("b1", TRUE, Resolution(<<>>, "YES", <<>>)),
      Request("b1", TRUE, Resolution(<<"b1", "b1">>, "YES", <<>>)),
      Request("b1", TRUE, Resolution(<<"b1", Stranger>>, "YES", <<>>)),
      Request("b1", TRUE, Resolution(<<"b2">>, "YES", <<>>)),
      Request("b1", FALSE, Resolution(<<"b1">>, "YES", <<>>)),
      Request("b2", TRUE, Resolution(<<"b1", "b2">>, "YES", <<>>)),
      Request("b1", TRUE,
              Resolution(<<"b1", "b2">>, None, <<Vote("b1", "YES"), Vote("b2", "YES")>>)),
      Request("b2", TRUE,
              Resolution(<<"b1", "b2">>, None, <<Vote("b1", "YES"), Vote("b2", "NO")>>)),
      Request("b2", TRUE,
              Resolution(<<"b1", "b2">>, "NO", <<Vote("b1", "YES"), Vote("b2", "YES")>>)),
      Request("b1", TRUE,
              Resolution(<<"b1", "b2">>, None, <<Vote("b1", "YES"), Vote("b1", "NO")>>)),
      Request("b1", TRUE,
              Resolution(<<"b1", "b2">>, None, <<Vote("b1", "YES"), Vote("b2", "MAYBE")>>)) }

\* the deposits a bot has made
DepositCount(b) ==
    Cardinality({i \in 1..Len(store.ledger[b]) : store.ledger[b][i].reason = "deposit"})

\* the handler's effect on the store; r.code is the status it answers with
Respond(r) ==
    /\ store' = r.s
    /\ UNCHANGED <<now, AUTO_RESOLVE_ENABLED, metrics, resolving, trading>>

\* the model stops recording alerts at MaxAlerts
Bounded(r) == Len(r.s.alerts) <= MaxAlerts

\* ------------------------------------------------------------------ actions
DepositBdc(q) ==
    /\ q.payload.bot_id \in BotIds => DepositCount(q.payload.bot_id) < MaxDeposits
    /\ LET r == deposit_bdc(store, now, q.payload.bot_id, q.payload.amount_bdc,
                            "deposit", q.request_bot_id, q.key_ok)
       IN Bounded(r) /\ Respond(r)

UpdateTreasuryConfig(q) ==
    LET r == update_treasury_config(store, now, q.payload, q.request_bot_id, q.key_ok)
    IN Bounded(r) /\ Respond(r)

CreateMarket(q) ==
    /\ Len(store.markets) < MaxMarkets
    /\ LET r == create_market(store, now, q.payload, q.request_bot_id, q.key_ok)
       IN Bounded(r) /\ Respond(r)

CreateTrade(m, q) ==
    /\ m \in 1..Len(store.markets) => Len(store.trades[m]) < MaxTrades
    /\ LET r == create_trade(store, now, m, q.payload, q.request_bot_id, q.key_ok)
       IN Bounded(r) /\ Respond(r)

ResolveMarket(m, q) ==
    LET r == resolve_market(store, now, m, q.payload, q.request_bot_id, q.key_ok)
    IN Bounded(r) /\ Respond(r)

GetMarket ==
    /\ store' = get_market(store, now).s
    /\ UNCHANGED <<now, AUTO_RESOLVE_ENABLED, metrics, resolving, trading>>

MarketLifecycleJob ==
    /\ store' = market_lifecycle_job(store, now, AUTO_RESOLVE_ENABLED)
    /\ UNCHANGED <<now, AUTO_RESOLVE_ENABLED, metrics, resolving, trading>>

\* time passes
Tick ==
    /\ now + 61 <= 183 + 61 * MaxTicks
    /\ now' = now + 61
    /\ UNCHANGED <<store, AUTO_RESOLVE_ENABLED, metrics, resolving, trading>>

RECURSIVE Registered(_, _)
\* the store after each bot of todo has registered (POST /bots), put the
\* active policy at time 0 and made a first deposit a minute later
Registered(s, todo) ==
    IF todo = {} THEN s
    ELSE LET b == CHOOSE x \in todo : TRUE
             s1 == create_bot(s, b)
             s2 == update_bot_policy(s1, 0, b, ActivePolicy, b, TRUE).s
             s3 == deposit_bdc(s2, 61, b, R(12), "deposit", b, TRUE).s
         IN Registered(s3, todo \ {b})

\* a process whose bots have registered (Idle without ever putting a policy)
\* and whose first market b1 has created (single resolver, closing after the
\* last tick), a minute after that
Init ==
    /\ store = create_market(create_bot(Registered(InMemoryStore, BotIds), Idle), 122,
                              MarketCreate("b1", "single", 305), "b1", TRUE).s
    /\ now = 183
    /\ AUTO_RESOLVE_ENABLED \in BOOLEAN
    /\ metrics = RequestMetrics
    /\ resolving = {}
    /\ trading = {}

Next ==
    \/ \E q \in DepositRequests : DepositBdc(q)
    \/ \E q \in TreasuryRequests : UpdateTreasuryConfig(q)
    \/ \E q \in MarketRequests : CreateMarket(q)
    \/ \E m \in 1..MaxMarkets, q \in TradeRequests : CreateTrade(m, q)
    \/ \E m \in 1..MaxMarkets, q \in ResolutionRequests : ResolveMarket(m, q)
    \/ GetMarket
    \/ MarketLifecycleJob
    \/ Tick

Spec == Init /\ [][Next]_vars

\* ------------------------------------------- a process with seeded resolvers
\* a market with a third outcome
PollCreate(b, rp, closes_at) ==
    [MarketCreate(b, rp, closes_at) EXCEPT !.outcomes = <<"MAYBE", "NO", "YES">>]

\* the reputations found in the store: those create_bot gives (0.0), or those
\* an operator has written into it (no handler changes a reputation_score),
\* 2 for b1, 1 for b2 and for Idle
Reputations ==
    { [b \in BotIds \cup {Idle} |-> R(0)],
      [b \in BotIds \cup {Idle} |-> IF b = "b1" THEN R(2) ELSE R(1)] }

Seeded(s, reputation) ==
    [s EXCEPT !.bots = [b \in DOMAIN s.bots |->
                           [s.bots[b] EXCEPT !.reputation_score = reputation[b]]]]

\* the votes of the listed resolvers, one outcome each
Ballot(ids, outcomes) == [i \in 1..Len(ids) |-> Vote(ids[i], outcomes[i])]

\* the outcomes a vote names: those of the polls and one no market has
VoteOutcomes == {"MAYBE", "NO", "YES", "OTHER"}

\* every ballot of two or of three listed resolvers, sent by b1 or b2
BallotRequests ==
    { Request(b, TRUE, Resolution(ids, None, Ballot(ids, os))) :
        b \in BotIds, ids \in {<<"b1", "b2">>},
        os \in [1..2 -> VoteOutcomes] }
    \cup
    { Request(b, TRUE, Resolution(ids, None, Ballot(ids, os))) :
        b \in BotIds, ids \in {<<"b1", "b2", Idle>>},
        os \in [1..3 -> {"MAYBE", "NO", "YES"}] }

\* ballots that are not one vote per listed resolver, lists that are too
\* short, repeat a resolver, leave out the caller or name an unregistered bot,
\* callers that are inactive, unregistered or without the key, and outcomes
\* given next to the votes
OddRequests ==
    { Request("b1", TRUE, Resolution(<<"b1", "b2">>, None, <<>>)),
      Request("b1", TRUE, Resolution(<<"b1", "b2">>, None, <<Vote("b1", "YES")>>)),
      Request("b1", TRUE,
              Resolution(<<"b1", "b2">>, None, <<Vote("b1", "YES"), Vote("b1", "NO")>>)),
      Request("b1", TRUE,
              Resolution(<<"b1", "b2">>, None,
                         <<Vote("b1", "YES"), Vote("b2", "YES"), Vote("b2", "NO")>>)),
      Request("b1", TRUE,
              Resolution(<<"b1", "b2">>, None,
                         <<Vote("b1", "YES"), Vote("b2", "YES"), Vote(Idle, "YES")>>)),
      Request("b1", TRUE,
              Resolution(<<"b1", "b2">>, None,
                         <<Vote("b1", "YES"), Vote("b2", "YES"), Vote(Stranger, "YES")>>)),
      Request("b1", TRUE,
              Resolution(<<"b1", "b2">>, "YES", <<Vote("b1", "YES"), Vote("b2", "YES")>>)),
      Request("b2", TRUE,
              Resolution(<<"b1", "b2">>, "NO", <<Vote("b1", "YES"), Vote("b2", "YES")>>)),
      Request("b1", TRUE, Resolution(<<"b1">>, None, <<Vote("b1", "YES")>>)),
      Request("b1", TRUE,
              Resolution(<<"b1", "b1">>, None, <<Vote("b1", "YES"), Vote("b1", "YES")>>)),
      Request("b1", TRUE,
              Resolution(<<"b1", Stranger>>, None,
                         <<Vote("b1", "YES"), Vote(Stranger, "YES")>>)),
      Request("b1", TRUE,
              Resolution(<<"b2", Idle>>, None, <<Vote("b2", "YES"), Vote(Idle, "YES")>>)),
      Request(Idle, TRUE,
              Resolution(<<"b1", Idle>>, None, <<Vote("b1", "YES"), Vote(Idle, "YES")>>)),
      Request(Stranger, TRUE,
              Resolution(<<"b1", Stranger>>, None,
                         <<Vote("b1", "YES"), Vote(Stranger, "YES")>>)),
      Request("b2", FALSE,
              Resolution(<<"b1", "b2">>, None, <<Vote("b1", "YES"), Vote("b2", "YES")>>)),
      Request("b2", TRUE, Resolution(<<"b2">>, "YES", <<Vote("b2", "NO")>>)),
      Request(Idle, TRUE, Resolution(<<Idle>>, "YES", <<>>)) }

\* the resolve requests the handler is examined on
VoteRequests == ResolutionRequests \cup BallotRequests \cup OddRequests

\* the resolve requests made to the seeded process: an outcome from a single
\* resolver, ballots of two and of three resolvers that carry an outcome or
\* are split, one with an outcome that contradicts the votes, and a call from
\* a bot that is not active
CastRequests ==
    { Request("b1", TRUE, Resolution(<<"b1">>, "YES", <<>>)),
      Request("b2", TRUE, Resolution(<<"b2">>, "NO", <<>>)),
      Request("b1", TRUE,
              Resolution(<<"b1", "b2">>, None, Ballot(<<"b1", "b2">>, <<"NO", "YES">>))),
      Request("b2", TRUE,
              Resolution(<<"b1", "b2">>, None, Ballot(<<"b1", "b2">>, <<"YES", "YES">>))),
      Request("b2", TRUE,
              Resolution(<<"b1", "b2", Idle>>, None,
                         Ballot(<<"b1", "b2", Idle>>, <<"NO", "YES", "YES">>))),
      Request("b1", TRUE,
              Resolution(<<"b1", "b2", Idle>>, None,
                         Ballot(<<"b1", "b2", Idle>>, <<"MAYBE", "NO", "YES">>))),
      Request("b2", TRUE,
              Resolution(<<"b1", "b2">>, "NO", Ballot(<<"b1", "b2">>, <<"YES", "YES">>))),
      Request(Idle, TRUE, Resolution(<<Idle>>, "YES", <<>>)) }

ResolveByVote(m, q) ==
    LET r == resolve_market(store, now, m, q.payload, q.request_bot_id, q.key_ok)
    IN Bounded(r) /\ Respond(r)

\* time passes in the seeded process
Later ==
    /\ now + 61 <= 244 + 61 * MaxTicks
    /\ now' = now + 61
    /\ UNCHANGED <<store, AUTO_RESOLVE_ENABLED, metrics, resolving, trading>>

\* the store after its third bot has paused itself (PUT /bots/{bot_id}/policy
\* with status paused), or done nothing
Withdrawn(s, status) ==
    IF status = "paused"
    THEN update_bot_policy(s, 0, Idle, default_bot_policy("paused"), Idle, TRUE).s
    ELSE s

\* a process with two active bots and a third that is inactive or paused,
\* their reputations untouched or seeded, and whose markets were created by
\* b1 (single), b2 (majority, three outcomes) and b1 again (consensus, three
\* outcomes), all closing with the last tick
VotingInit ==
    /\ \E reputation \in Reputations, status \in {"inactive", "paused"} :
         store =
           LET s1 == Seeded(Withdrawn(create_bot(Registered(InMemoryStore, BotIds), Idle),
                                      status),
                            reputation)
               s2 == create_market(s1, 122, MarketCreate("b1", "single", 305),
                                   "b1", TRUE).s
               s3 == create_market(s2, 122, PollCreate("b2", "majority", 305),
                                   "b2", TRUE).s
           IN create_market(s3, 183, PollCreate("b1", "consensus", 305), "b1", TRUE).s
    /\ now = 244
    /\ AUTO_RESOLVE_ENABLED = FALSE
    /\ metrics = RequestMetrics
    /\ resolving = {}
    /\ trading = {}

VotingNext ==
    \/ \E m \in 1..3, q \in CastRequests : ResolveByVote(m, q)
    \/ GetMarket
    \/ Later

VotingSpec == VotingInit /\ [][VotingNext]_vars

\* ------------------------------------------- a process whose bots set stakes
\* the policies put with PUT /bots/{bot_id}/policy: b1 lowers its stakes to 0,
\* b2 raises its stakes above its balance
PolicyRequests ==
    { Request("b1", TRUE, [ActivePolicy EXCEPT !.stake_bdc_market = R(0),
                                               !.stake_bdc_resolution = R(0)]),
      Request("b2", TRUE, [ActivePolicy EXCEPT !.stake_bdc_market = R(13),
                                               !.stake_bdc_resolution = R(13)]) }

UpdateBotPolicy(q) ==
    LET r == update_bot_policy(store, now, q.request_bot_id, q.payload,
                               q.request_bot_id, q.key_ok)
    IN Bounded(r) /\ Respond(r)

StakeNext ==
    \/ \E q \in PolicyRequests : UpdateBotPolicy(q)
    \/ \E q \in MarketRequests : CreateMarket(q)
    \/ \E m \in 1..MaxMarkets, q \in ResolutionRequests : ResolveMarket(m, q)
    \/ Tick

StakeSpec == Init /\ [][StakeNext]_vars

\* ------------------------------------- a process whose bots repeat requests
MaxWaits == 5
MaxHalfDays == 3
MaxWebhooks == 2
MaxThreads == 2
MaxPauses == 32
MaxOutbox == 4

\* the policy of a bot that allows itself two requests a minute
TwoAMinute == [ActivePolicy EXCEPT !.max_requests_per_minute = 2]

\* PUT /bots/{bot_id}/policy with the policy the bot already has
RepeatPolicy(b) ==
    LET r == update_bot_policy(store, now, b, store.bot_policies[b], b, TRUE)
    IN Bounded(r) /\ Respond(r)

\* twenty seconds pass
Wait ==
    /\ now + 20 <= 183 + 20 * MaxWaits
    /\ now' = now + 20
    /\ UNCHANGED <<store, AUTO_RESOLVE_ENABLED, metrics, resolving, trading>>

\* a process whose registered bots are limited to two requests a minute (b1)
\* and to one (b2)
RateInit ==
    /\ store = update_bot_policy(create_bot(Registered(InMemoryStore, BotIds), Idle),
                                  122, "b1", TwoAMinute, "b1", TRUE).s
    /\ now = 183
    /\ AUTO_RESOLVE_ENABLED = FALSE
    /\ metrics = RequestMetrics
    /\ resolving = {}
    /\ trading = {}

RateNext ==
    \/ \E b \in BotIds : RepeatPolicy(b)
    \/ \E q \in DepositRequests : DepositBdc(q)
    \/ Wait

RateSpec == RateInit /\ [][RateNext]_vars

\* --------------------------------- a process whose bots have daily quotas
\* a policy without stakes that allows the given numbers of market creations
\* and of resolutions a day (0: any number)
QuotaPolicy(max_markets_per_day, max_resolutions_per_day) ==
    [ActivePolicy EXCEPT !.stake_bdc_market = R(0),
                         !.stake_bdc_resolution = R(0),
                         !.max_markets_per_day = max_markets_per_day,
                         !.max_resolutions_per_day = max_resolutions_per_day]

\* the markets created and the resolve calls made under quotas
QuotaMarketRequests ==
    { Request("b1", TRUE, MarketCreate("b1", "single", 43383)),
      Request("b2", TRUE, MarketCreate("b2", "single", 43383)) }

QuotaResolutionRequests ==
    { Request("b1", TRUE, Resolution(<<"b1">>, "YES", <<>>)),
      Request("b2", TRUE, Resolution(<<"b2">>, "NO", <<>>)) }

\* half a day passes
HalfDay ==
    /\ now + 43200 <= 183 + 43200 * MaxHalfDays
    /\ now' = now + 43200
    /\ UNCHANGED <<store, AUTO_RESOLVE_ENABLED, metrics, resolving, trading>>

\* a process whose registered bots have put their quotas: b1 one or two
\* markets and one resolution a day, b2 no limit
QuotaInit ==
    /\ \E n \in {1, 2} :
           store = update_bot_policy(
                       update_bot_policy(
                           create_bot(Registered(InMemoryStore, BotIds), Idle),
                           122, "b1", QuotaPolicy(n, 1), "b1", TRUE).s,
                       122, "b2", QuotaPolicy(0, 0), "b2", TRUE).s
    /\ now = 183
    /\ AUTO_RESOLVE_ENABLED = FALSE
    /\ metrics = RequestMetrics
    /\ resolving = {}
    /\ trading = {}

QuotaNext ==
    \/ \E q \in QuotaMarketRequests : CreateMarket(q)
    \/ \E m \in 1..MaxMarkets, q \in QuotaResolutionRequests : ResolveMarket(m, q)
    \/ HalfDay

QuotaSpec == QuotaInit /\ [][QuotaNext]_vars

\* ------------------------------------ a process whose webhook worker delivers
\* what the POSTs of one iteration of the worker are answered with
DeliveryResponses == {204, 500, NetworkError}

WebhookDeliveryJob ==
    \E responses \in [1..Len(store.outbox) -> DeliveryResponses] :
        LET r == webhook_delivery_job(store, metrics, now, responses)
        IN /\ store' = r.s
           /\ metrics' = r.metrics
           /\ UNCHANGED <<now, AUTO_RESOLVE_ENABLED, resolving, trading>>

\* five seconds pass
Pause ==
    /\ now + 5 <= 183 + 5 * MaxPauses
    /\ now' = now + 5
    /\ UNCHANGED <<store, AUTO_RESOLVE_ENABLED, metrics, resolving, trading>>

\* a process with a webhook of b1 for every event, in which b1 has just
\* created a market that closes twenty seconds later
DeliveryInit ==
    /\ store = create_market(
                   register_webhook(
                       create_bot(Registered(InMemoryStore, BotIds), Idle),
                       122, "b1", [bot_id |-> "b1", event_types |-> {}], "b1", TRUE).s,
                   183, MarketCreate("b1", "single", 203), "b1", TRUE).s
    /\ now = 183
    /\ AUTO_RESOLVE_ENABLED = FALSE
    /\ metrics = RequestMetrics
    /\ resolving = {}
    /\ trading = {}

DeliveryNext ==
    \/ WebhookDeliveryJob
    \/ MarketLifecycleJob
    \/ Pause

DeliverySpec == DeliveryInit /\ [][DeliveryNext]_vars

\* ------------------------------------ the delivery worker that keeps running
\* The loop of webhook_delivery_job: an iteration, then asyncio.sleep(2). The
\* iterations are two seconds apart, so one of them falls into every step of
\* five seconds of this model's clock.
WebhookDeliveryLoop ==
    /\ now + 5 <= 183 + 5 * MaxPauses
    /\ \E responses \in [1..Len(store.outbox) -> DeliveryResponses] :
           LET r == webhook_delivery_job(store, metrics, now, responses)
           IN store' = r.s /\ metrics' = r.metrics
    /\ now' = now + 5
    /\ UNCHANGED <<AUTO_RESOLVE_ENABLED, resolving, trading>>

LiveNext ==
    \/ WebhookDeliveryLoop
    \/ MarketLifecycleJob

\* the worker's task is never cancelled before shutdown: its loop goes on
LiveSpec == DeliveryInit /\ [][LiveNext]_vars /\ WF_vars(WebhookDeliveryLoop)

\* ------------------- a process whose market creator withdraws before the close
\* the policies b1 puts after creating its market: paused, with a resolution
\* stake above its balance and one resolution a day; or inactive
StatusRequests ==
    { Request("b1", TRUE, [ActivePolicy EXCEPT !.status = "paused",
                                               !.stake_bdc_resolution = R(13),
                                               !.max_resolutions_per_day = 1]),
      Request("b1", TRUE, [ActivePolicy EXCEPT !.status = "inactive"]) }

\* the trades and the resolve calls made before the close
EarlyTrades ==
    { Request("b1", TRUE, TradeCreate("b1", "NO", R(3))),
      Request("b2", TRUE, TradeCreate("b2", "YES", R(3))),
      Request("b2", TRUE, TradeCreate("b2", "NO", R(2))) }

EarlyResolutions ==
    { Request("b1", TRUE, Resolution(<<"b1">>, "YES", <<>>)),
      Request("b2", TRUE,
              Resolution(<<"b1", "b2">>, None, <<Vote("b1", "YES"), Vote("b2", "YES")>>)) }

\* a process whose first market (of b1, single resolver) closes at the tick
AutoInit ==
    /\ store = create_market(create_bot(Registered(InMemoryStore, BotIds), Idle), 122,
                              MarketCreate("b1", "single", 244), "b1", TRUE).s
    /\ now = 183
    /\ AUTO_RESOLVE_ENABLED \in BOOLEAN
    /\ metrics = RequestMetrics
    /\ resolving = {}
    /\ trading = {}

AutoNext ==
    \/ \E q \in StatusRequests : UpdateBotPolicy(q)
    \/ \E q \in MarketRequests : CreateMarket(q)
    \/ \E m \in 1..MaxMarkets, q \in EarlyTrades : CreateTrade(m, q)
    \/ \E m \in 1..MaxMarkets, q \in EarlyResolutions : ResolveMarket(m, q)
    \/ MarketLifecycleJob
    \/ Tick

AutoSpec == AutoInit /\ [][AutoNext]_vars

\* ------------------------- a process whose worker threads serve resolve calls
\* The handlers are plain functions (def, not async def), which the framework
\* runs on worker threads, while market_lifecycle_job runs on the event loop:
\* nothing in the handler holds a lock, so between two of its lines another
\* thread or the job may run. The model cuts resolve_market once, after its
\* test of the market's status.

\* resolve_market up to its test of the market's status: the lazy close, 404
\* for an unknown market, 409 for a resolved one; otherwise the call goes on
BeginResolve(m, q) ==
    /\ Cardinality(resolving) < MaxThreads
    /\ [m |-> m, q |-> q] \notin resolving
    /\ LET s0 == close_expired_markets(store, now)
       IN /\ store' = s0
          /\ resolving' = IF m \in 1..Len(s0.markets) /\ s0.markets[m].status # "resolved"
                          THEN resolving \cup {[m |-> m, q |-> q]}
                          ELSE resolving
    /\ UNCHANGED <<now, AUTO_RESOLVE_ENABLED, metrics, trading>>

\* the rest of resolve_market, on the store as it is by then
FinishResolve(c) ==
    /\ LET r == resolve_unresolved_market(store, now, c.m, c.q.payload,
                                          c.q.request_bot_id, c.q.key_ok)
       IN Bounded(r) /\ store' = r.s
    /\ resolving' = resolving \ {c}
    /\ UNCHANGED <<now, AUTO_RESOLVE_ENABLED, metrics, trading>>

\* the resolve calls that race: each bot names itself the sole resolver
RacingResolutions ==
    { Request("b1", TRUE, Resolution(<<"b1">>, "YES", <<>>)),
      Request("b2", TRUE, Resolution(<<"b2">>, "NO", <<>>)),
      Request("b2", TRUE, Resolution(<<"b2">>, "YES", <<>>)) }

RaceNext ==
    \/ \E m \in 1..MaxMarkets, q \in EarlyTrades : CreateTrade(m, q)
    \/ \E m \in 1..MaxMarkets, q \in RacingResolutions : BeginResolve(m, q)
    \/ \E c \in resolving : FinishResolve(c)
    \/ MarketLifecycleJob
    \/ Tick

RaceSpec == AutoInit /\ [][RaceNext]_vars

\* --------------------------- a process whose bots raise their own thresholds
\* the policies put: a balance of 13 BDC or a reputation of 2 for creating and
\* for resolving markets, two requests a minute, one open market at a time
GatePolicy ==
    [ActivePolicy EXCEPT !.min_balance_bdc_for_market = R(13),
                         !.min_reputation_score_for_market = R(2),
                         !.min_balance_bdc_for_resolution = R(13),
                         !.min_reputation_score_for_resolution = R(2),
                         !.max_requests_per_minute = 2,
                         !.max_active_markets = 1]

\* b2 also puts the policy without a limit on its open markets
GatePolicies ==
    { Request(b, TRUE, GatePolicy) : b \in BotIds }
    \cup { Request("b2", TRUE, [GatePolicy EXCEPT !.max_active_markets = 0]) }

\* the process of AutoInit with the reputations of Reputations in its store
GateInit ==
    /\ store \in
           { Seeded(create_market(create_bot(Registered(InMemoryStore, BotIds), Idle), 122,
                                  MarketCreate("b1", "single", 244), "b1", TRUE).s,
                    reputation) : reputation \in Reputations }
    /\ now = 183
    /\ AUTO_RESOLVE_ENABLED \in BOOLEAN
    /\ metrics = RequestMetrics
    /\ resolving = {}
    /\ trading = {}

GateNext ==
    \/ \E q \in GatePolicies : UpdateBotPolicy(q)
    \/ \E q \in DepositRequests : DepositBdc(q)
    \/ \E q \in MarketRequests : CreateMarket(q)
    \/ \E m \in 1..MaxMarkets, q \in EarlyResolutions : ResolveMarket(m, q)
    \/ MarketLifecycleJob
    \/ Tick

GateSpec == GateInit /\ [][GateNext]_vars

\* -------------------------- a process whose worker threads serve trade calls
\* create_trade runs on a worker thread as resolve_market does, and holds no
\* lock either. The model cuts it once, after its test of the market's status.

\* create_trade up to its test of the market's status: the lazy close, 404 for
\* an unknown market, 409 for one that is not open; otherwise the call goes on
BeginTrade(m, q) ==
    /\ Cardinality(trading) < MaxThreads
    /\ [m |-> m, q |-> q] \notin trading
    /\ m \in 1..Len(store.markets)
           => Len(store.trades[m]) + Cardinality({c \in trading : c.m = m}) < MaxTrades
    /\ LET s0 == close_expired_markets(store, now)
       IN /\ store' = s0
          /\ trading' = IF m \in 1..Len(s0.markets) /\ s0.markets[m].status = "open"
                        THEN trading \cup {[m |-> m, q |-> q]}
                        ELSE trading
    /\ UNCHANGED <<now, AUTO_RESOLVE_ENABLED, metrics, resolving>>

\* the rest of create_trade, on the store as it is by then
FinishTrade(c) ==
    /\ LET r == trade_on_open_market(store, now, c.m, c.q.payload,
                                     c.q.request_bot_id, c.q.key_ok)
       IN Bounded(r) /\ store' = r.s
    /\ trading' = trading \ {c}
    /\ UNCHANGED <<now, AUTO_RESOLVE_ENABLED, metrics, resolving>>

TradeRaceNext ==
    \/ \E m \in 1..MaxMarkets, q \in EarlyTrades : BeginTrade(m, q)
    \/ \E c \in trading : FinishTrade(c)
    \/ \E m \in 1..MaxMarkets, q \in RacingResolutions : ResolveMarket(m, q)
    \/ MarketLifecycleJob
    \/ Tick

TradeRaceSpec == AutoInit /\ [][TradeRaceNext]_vars

\* ------------------------------------- a process whose bots register webhooks
\* the bodies of POST /bots/{bot_id}/webhooks: b1 subscribes to every event,
\* b2 to the creation and the resolution of markets, b1 to price changes; one
\* request names another bot
WebhookRequests ==
    { Request("b1", TRUE, [bot_id |-> "b1", event_types |-> {}]),
      Request("b2", TRUE, [bot_id |-> "b2",
                           event_types |-> {"market_created", "market_resolved"}]),
      Request("b1", TRUE, [bot_id |-> "b1", event_types |-> {"price_changed"}]),
      Request("b2", TRUE, [bot_id |-> "b1", event_types |-> {}]) }

\* the model stops registering at MaxWebhooks and stops at MaxOutbox entries
RegisterWebhook(q) ==
    /\ Len(store.webhooks) < MaxWebhooks
    /\ LET r == register_webhook(store, now, q.payload.bot_id, q.payload,
                                 q.request_bot_id, q.key_ok)
       IN Bounded(r) /\ Respond(r)

OutboxBounded == Len(store'.outbox) <= MaxOutbox

FanOutNext ==
    \/ \E q \in WebhookRequests : RegisterWebhook(q) /\ OutboxBounded
    \/ \E q \in MarketRequests : CreateMarket(q) /\ OutboxBounded
    \/ \E m \in 1..MaxMarkets, q \in EarlyTrades : CreateTrade(m, q) /\ OutboxBounded
    \/ \E m \in 1..MaxMarkets, q \in EarlyResolutions :
           ResolveMarket(m, q) /\ OutboxBounded
    \/ MarketLifecycleJob /\ OutboxBounded
    \/ Tick

FanOutSpec == Init /\ [][FanOutNext]_vars

\* ------------------------------------------------------------------ claims
Markets == 1..Len(store.markets)

Resolved(m) == store.markets[m].status = "resolved"

\* this step settles market m
Settles(m) == ~Resolved(m) /\ store'.markets[m].status = "resolved"

IsPrefix(old, new) == Len(old) <= Len(new) /\ SubSeq(new, 1, Len(old)) = old

Appended(old, new) == SubSeq(new, Len(old) + 1, Len(new))

RECURSIVE SeqSum(_)
SeqSum(amounts) ==
    IF amounts = <<>> THEN R(0) ELSE RAdd(Head(amounts), SeqSum(Tail(amounts)))

Deltas(entries) == [i \in 1..Len(entries) |-> entries[i].delta_bdc]

\* the entries of a ledger for market m with the given reason
EntriesFor(entries, m, reason) ==
    SelectSeq(entries, LAMBDA e : e.market_id = m /\ e.reason = reason)

\* what this step credits bot b for market m under the given reason
Credits(b, m, reason) ==
    Deltas(EntriesFor(Appended(store.ledger[b], store'.ledger[b]), m, reason))

\* what this step credits all bots together for market m under the reason
CreditTotal(m, reason) == SumValues([b \in BotIds |-> SeqSum(Credits(b, m, reason))])

\* what this step credits the treasury for market m under the given reason
TreasuryCredits(m, reason) ==
    Deltas(EntriesFor(Appended(store.treasury_ledger, store'.treasury_ledger),
                      m, reason))

\* the pools of market m, their sum, and the outcome a settling step resolves to
Pools(m) == store.markets[m].outcome_pools

TotalPool(m) == SumValues(Pools(m))

WinningPool(m) == Pools(m)[store'.resolutions[m].resolved_outcome_id]

\* what a settling step leaves of the pool of m after the payouts
Remainder(m) == RSub(TotalPool(m), CreditTotal(m, "payout"))

\* C1: for every resolved market, every resolve_market call, whatever the
\* policy of the market, the caller, its credentials and the payload, answers
\* 409 and leaves the stored Resolution, resolved_at, every bot's wallet and
\* ledger, the treasury balance and the treasury ledger as they were.
C1_ResolvedMarketRejectsResolve ==
    \A m \in Markets :
        Resolved(m) =>
            \A caller \in BotIds \cup {Stranger}, key_ok \in BOOLEAN,
               q \in ResolutionRequests :
                LET r == resolve_market(store, now, m, q.payload, caller, key_ok)
                IN /\ r.code = 409
                   /\ r.s.resolutions = store.resolutions
                   /\ r.s.markets[m].resolved_at = store.markets[m].resolved_at
                   /\ r.s.bots = store.bots
                   /\ r.s.ledger = store.ledger
                   /\ r.s.treasury_balance_bdc = store.treasury_balance_bdc
                   /\ r.s.treasury_ledger = store.treasury_ledger

\* a market resolved under the single policy and one resolved by a majority
\* vote, one of them with a trade that a second settlement would pay again
C1_Witness ==
    \E m1, m2 \in Markets :
        /\ Resolved(m1) /\ store.markets[m1].resolver_policy = "single"
        /\ Resolved(m2) /\ store.markets[m2].resolver_policy = "majority"
        /\ store.trades[m1] # <<>> \/ store.trades[m2] # <<>>

\* C2: every settlement of a market, by resolve_market or by the automatic
\* resolution, splits the market's total pool exactly: the payouts to the
\* winners, the liquidity_distribution credits, the resolution_remainder credit
\* of the treasury and an untracked rest add up to the sum of the outcome
\* pools, and the untracked rest is never negative and is non-zero only when
\* send_unpaid_to_treasury is false.
C2_SettlementConservesPool ==
    [][\A m \in Markets :
          Settles(m) =>
              LET untracked ==
                      RSub(RSub(Remainder(m), CreditTotal(m, "liquidity_distribution")),
                           SeqSum(TreasuryCredits(m, "resolution_remainder")))
              IN /\ RLe(R(0), untracked)
                 /\ untracked # R(0) => ~store.treasury_config.send_unpaid_to_treasury
      ]_vars

\* a settled market whose pool went partly to the liquidity bots and partly to
\* the treasury
C2_Witness ==
    \E m \in Markets :
        /\ Resolved(m)
        /\ \E b \in BotIds :
               EntriesFor(store.ledger[b], m, "liquidity_distribution") # <<>>
        /\ EntriesFor(store.treasury_ledger, m, "resolution_remainder") # <<>>

\* the trades of market m on outcome o made by bot b, in the order recorded
TradesOf(m, o, b) ==
    SelectSeq(store.trades[m], LAMBDA tr : tr.outcome_id = o /\ tr.bot_id = b)

\* (trade.amount / winning_pool) * total_pool for each of the given trades
ExpectedPayouts(trades, winning_pool, total_pool) ==
    [i \in 1..Len(trades) |->
        RMul(RDiv(trades[i].amount_bdc, winning_pool), total_pool)]

\* what this step adds to the wallet of bot b according to its ledger
LedgerDelta(b) == SeqSum(Deltas(Appended(store.ledger[b], store'.ledger[b])))

\* C3: a settlement with winning outcome w and outcome_pools[w] > 0 credits
\* the bot of every trade on w with (trade.amount / winning_pool) * total_pool
\* and one 'payout' ledger entry per such trade, in the order of the trades,
\* and makes no payout for a trade on another outcome; with outcome_pools[w] = 0
\* the settlement goes through without any payout and the whole total pool is
\* the remainder.
C3_WinnersPaidProRata ==
    [][\A m \in Markets :
          Settles(m) =>
              LET w == store'.resolutions[m].resolved_outcome_id
              IN /\ \A b \in BotIds :
                        /\ Credits(b, m, "payout") =
                               IF RLt(R(0), WinningPool(m))
                               THEN ExpectedPayouts(TradesOf(m, w, b), WinningPool(m),
                                                    TotalPool(m))
                               ELSE <<>>
                        /\ store'.bots[b].wallet_balance_bdc =
                               RAdd(store.bots[b].wallet_balance_bdc, LedgerDelta(b))
                 /\ WinningPool(m) = R(0) => Remainder(m) = TotalPool(m)
      ]_vars

\* a settled market with winning trades of both bots and a losing trade, each
\* winner paid more than it staked
C3_Witness ==
    \E m \in Markets :
        /\ Resolved(m)
        /\ \A b \in BotIds :
               /\ TradesOf(m, store.resolutions[m].resolved_outcome_id, b) # <<>>
               /\ EntriesFor(store.ledger[b], m, "payout") # <<>>
        /\ \E i \in 1..Len(store.trades[m]) :
               store.trades[m][i].outcome_id # store.resolutions[m].resolved_outcome_id

\* what a settling step leaves of the pool of m after payouts and liquidity
Leftover(m) == RSub(Remainder(m), CreditTotal(m, "liquidity_distribution"))

NewTreasuryEntries == Appended(store.treasury_ledger, store'.treasury_ledger)

\* C4: a settlement adds the leftover (the remainder minus the liquidity
\* share), when positive, to the treasury balance with one
\* 'resolution_remainder' entry of that amount if and only if
\* send_unpaid_to_treasury is true; when it is false the settlement changes
\* neither the treasury balance nor the treasury ledger (the only treasury
\* entries of the step are the resolution stake resolve_market charges before
\* it settles).
C4_LeftoverToTreasuryIffConfigured ==
    [][\A m \in Markets :
          Settles(m) =>
              LET send == store.treasury_config.send_unpaid_to_treasury
              IN /\ TreasuryCredits(m, "resolution_remainder") =
                        IF send /\ RLt(R(0), Leftover(m)) THEN <<Leftover(m)>> ELSE <<>>
                 /\ \A i \in 1..Len(NewTreasuryEntries) :
                        \/ NewTreasuryEntries[i].reason = "resolution_stake"
                        \/ send /\ NewTreasuryEntries[i].reason = "resolution_remainder"
                 /\ store'.treasury_balance_bdc =
                        RAdd(store.treasury_balance_bdc,
                             SeqSum(Deltas(NewTreasuryEntries)))
      ]_vars

\* a market settled on an outcome nobody traded, its pool not empty, with
\* send_unpaid_to_treasury false: no resolution_remainder entry was written
C4_Witness ==
    /\ ~store.treasury_config.send_unpaid_to_treasury
    /\ \E m \in Markets :
           /\ Resolved(m)
           /\ Pools(m)[store.resolutions[m].resolved_outcome_id] = R(0)
           /\ RLt(R(0), TotalPool(m))
           /\ EntriesFor(store.treasury_ledger, m, "resolution_remainder") = <<>>

\* C5: a settlement with remainder > 0, liquidity_bot_allocation_pct > 0 and
\* a non-empty map of positive weights credits each configured bot b with
\* remainder * pct * weight[b] / sum(weights) and one 'liquidity_distribution'
\* ledger entry; the credits add up to remainder * pct; no liquidity credit
\* is made when the remainder is 0 or the allocation is not configured.
C5_LiquidityShareByWeight ==
    [][\A m \in Markets :
          Settles(m) =>
              LET pct == store.treasury_config.liquidity_bot_allocation_pct
                  weights == store.treasury_config.liquidity_bot_weights
                  configured == /\ RLt(R(0), pct)
                                /\ DOMAIN weights # {}
                                /\ \A b \in DOMAIN weights : RLt(R(0), weights[b])
                  distributes == RLt(R(0), Remainder(m)) /\ configured
              IN /\ \A b \in BotIds :
                        Credits(b, m, "liquidity_distribution") =
                            IF distributes /\ b \in DOMAIN weights
                            THEN <<RDiv(RMul(RMul(Remainder(m), pct), weights[b]),
                                        SumValues(weights))>>
                            ELSE <<>>
                 /\ distributes =>
                        CreditTotal(m, "liquidity_distribution") = RMul(Remainder(m), pct)
      ]_vars

\* a settled market whose remainder was shared between the two liquidity
\* bots, the bot of weight 2 getting twice the credit of the bot of weight 1
C5_Witness ==
    \E m \in Markets :
        /\ Resolved(m)
        /\ Len(EntriesFor(store.ledger["b1"], m, "liquidity_distribution")) = 1
        /\ Len(EntriesFor(store.ledger["b2"], m, "liquidity_distribution")) = 1
        /\ EntriesFor(store.ledger["b2"], m, "liquidity_distribution")[1].delta_bdc =
               RMul(R(2), EntriesFor(store.ledger["b1"], m,
                                     "liquidity_distribution")[1].delta_bdc)

\* C6: in every state reached by deposits, trades, market creations,
\* resolutions and automatic resolutions, the delta_bdc of a bot's ledger
\* entries add up to its wallet_balance_bdc; every step keeps the entries a
\* ledger already holds, unaltered and in place, and changes a wallet by
\* exactly the sum of the entries it appends to the bot's ledger.
C6_LedgerSumsToWallet ==
    /\ [](\A b \in BotIds :
             SeqSum(Deltas(store.ledger[b])) = store.bots[b].wallet_balance_bdc)
    /\ [][\A b \in BotIds :
             /\ IsPrefix(store.ledger[b], store'.ledger[b])
             /\ store'.bots[b].wallet_balance_bdc =
                    RAdd(store.bots[b].wallet_balance_bdc, LedgerDelta(b))
         ]_vars

\* a bot whose ledger holds a deposit, a market stake, a trade and a payout
C6_Witness ==
    \E b \in BotIds :
        \A reason \in {"deposit", "market_stake", "trade", "payout"} :
            \E i \in 1..Len(store.ledger[b]) : store.ledger[b][i].reason = reason

\* C7: in every state the treasury balance is the sum of the delta_bdc of the
\* treasury ledger; every step keeps the entries the treasury ledger holds and
\* changes the balance by exactly the entries it appends, each of them a
\* credit (a stake charged or a resolution remainder) of a positive amount.
C7_TreasuryLedgerSumsToBalance ==
    /\ [](SeqSum(Deltas(store.treasury_ledger)) = store.treasury_balance_bdc)
    /\ [][/\ IsPrefix(store.treasury_ledger, store'.treasury_ledger)
          /\ store'.treasury_balance_bdc =
                 RAdd(store.treasury_balance_bdc, SeqSum(Deltas(NewTreasuryEntries)))
          /\ \A i \in 1..Len(NewTreasuryEntries) :
                 /\ RLt(R(0), NewTreasuryEntries[i].delta_bdc)
                 /\ NewTreasuryEntries[i].reason \in
                        {"market_stake", "resolution_stake", "resolution_remainder"}
         ]_vars

\* a treasury that has taken a market stake, a resolution stake and a
\* resolution remainder
C7_Witness ==
    \A reason \in {"market_stake", "resolution_stake", "resolution_remainder"} :
        \E i \in 1..Len(store.treasury_ledger) :
            store.treasury_ledger[i].reason = reason

Amounts(trades) == [i \in 1..Len(trades) |-> trades[i].amount_bdc]

\* the sum of the amounts of the given trades that are on outcome o
TradedOn(trades, o) ==
    SeqSum(Amounts(SelectSeq(trades, LAMBDA tr : tr.outcome_id = o)))

\* C8: in every state, for every market and outcome, outcome_pools[outcome]
\* is the sum of the amounts of the trades recorded on that market and
\* outcome and the pools are those of the market's outcomes; a market enters
\* the store with a pool of 0 for every outcome, and no step changes the
\* outcomes of a market or removes a market.
C8_PoolsSumTrades ==
    /\ [](\A m \in Markets :
             /\ DOMAIN Pools(m) = Range(store.markets[m].outcomes)
             /\ \A o \in DOMAIN Pools(m) : Pools(m)[o] = TradedOn(store.trades[m], o))
    /\ [][/\ Len(store'.markets) >= Len(store.markets)
          /\ \A m \in Markets :
                 store'.markets[m].outcomes = store.markets[m].outcomes
          /\ \A m \in (1..Len(store'.markets)) \ Markets :
                 \A o \in Range(store'.markets[m].outcomes) :
                     store'.markets[m].outcome_pools[o] = R(0)
         ]_vars

\* a market with two trades on one outcome and a trade on the other
C8_Witness ==
    \E m \in Markets :
        \E o, p \in DOMAIN Pools(m) :
            /\ o # p
            /\ Len(SelectSeq(store.trades[m], LAMBDA tr : tr.outcome_id = o)) = 2
            /\ Len(SelectSeq(store.trades[m], LAMBDA tr : tr.outcome_id = p)) = 1

\* the events of the given type among the events a handler appended
EventsOfType(old, new, event_type) ==
    SelectSeq(Appended(old, new), LAMBDA ev : ev.event_type = event_type)

\* C9: a create_trade call that succeeds, of amount a by bot b on outcome o of
\* market m, takes exactly a off b's wallet, adds exactly a to outcome_pools[o]
\* of m, appends exactly one Trade (of b, o and a), one price_changed event
\* (of m and b) and one ledger entry (delta -a, reason 'trade'), and changes
\* no other bot's wallet or ledger, no other pool of m, no other market's
\* pools or trades, and neither the treasury balance nor the treasury ledger.
C9_TradeEffects ==
    \A m \in Markets, q \in TradeRequests :
        LET r == create_trade(store, now, m, q.payload, q.request_bot_id, q.key_ok)
            b == q.payload.bot_id
            o == q.payload.outcome_id
            a == q.payload.amount_bdc
            trade == r.s.trades[m][Len(r.s.trades[m])]
        IN r.code = 200 =>
              /\ r.s.bots[b].wallet_balance_bdc = RSub(store.bots[b].wallet_balance_bdc, a)
              /\ r.s.markets[m].outcome_pools[o] = RAdd(Pools(m)[o], a)
              /\ \A p \in DOMAIN Pools(m) \ {o} :
                     r.s.markets[m].outcome_pools[p] = Pools(m)[p]
              /\ Len(r.s.trades[m]) = Len(store.trades[m]) + 1
              /\ IsPrefix(store.trades[m], r.s.trades[m])
              /\ trade.bot_id = b /\ trade.outcome_id = o /\ trade.amount_bdc = a
              /\ EventsOfType(store.events, r.s.events, "price_changed") =
                     <<[event_type |-> "price_changed", market_id |-> m, bot_id |-> b]>>
              /\ r.s.ledger[b] =
                     Append(store.ledger[b],
                            [market_id |-> m, delta_bdc |-> <<-a[1], a[2]>>,
                             reason |-> "trade"])
              /\ \A c \in BotIds \ {b} :
                     /\ r.s.bots[c] = store.bots[c]
                     /\ r.s.ledger[c] = store.ledger[c]
              /\ \A n \in Markets \ {m} :
                     /\ r.s.markets[n].outcome_pools = Pools(n)
                     /\ r.s.trades[n] = store.trades[n]
              /\ r.s.treasury_balance_bdc = store.treasury_balance_bdc
              /\ r.s.treasury_ledger = store.treasury_ledger

\* two markets, each with trades behind it, and a further trade that goes
\* through on one of them
C9_Witness ==
    /\ Len(store.markets) = 2
    /\ \A n \in Markets : store.trades[n] # <<>>
    /\ \E m \in Markets, q \in TradeRequests :
           create_trade(store, now, m, q.payload, q.request_bot_id, q.key_ok).code = 200

\* C10: the price recorded on every Trade is outcome_pools[outcome] /
\* sum(outcome_pools) taken after the trade's amount was added: the first
\* trade of a market has price 1, every price lies in (0, 1], and the replay
\* of the trade log from empty pools that get_price_series makes gives for
\* every trade the price recorded on it.
C10_TradePrice ==
    \A m \in Markets :
        /\ Len(get_price_series(store, m)) = Len(store.trades[m])
        /\ \A i \in 1..Len(store.trades[m]) :
               LET trade == store.trades[m][i]
                   upto == SubSeq(store.trades[m], 1, i)
               IN /\ trade.price =
                        RDiv(TradedOn(upto, trade.outcome_id), SeqSum(Amounts(upto)))
                  /\ RLt(R(0), trade.price) /\ RLe(trade.price, R(1))
                  /\ i = 1 => trade.price = R(1)
                  /\ get_price_series(store, m)[i].price = trade.price

\* a market with three trades, the later ones priced below 1
C10_Witness ==
    \E m \in Markets :
        /\ Len(store.trades[m]) = 3
        /\ store.trades[m][2].price # R(1)
        /\ store.trades[m][3].price # store.trades[m][2].price

\* market m takes trades at the present time: open and not yet due to close
IsOpen(m) == store.markets[m].status = "open" /\ now < store.markets[m].closes_at

\* the requests of bot b recorded in the trailing rate-limit window
InWindow(b) ==
    {i \in 1..Len(store.bot_request_log[b]) :
        store.bot_request_log[b][i] >= now - RATE_LIMIT_WINDOW_SECONDS}

\* bot b has used up its requests of the trailing window
RateLimited(b) ==
    Cardinality(InWindow(b)) >= store.bot_policies[b].max_requests_per_minute

\* the request names its own bot, a registered one, with that bot's key
Authentic(q, b) == q.request_bot_id = b /\ b \in DOMAIN store.bots /\ q.key_ok

\* C11: create_trade answers 409 when the market is not open, and on an open
\* market, for an authentic request, in the order the handler checks: 403 when
\* the bot is not active, 429 when it is rate-limited, 400 for an outcome not
\* in the market, 400 when the balance is below the amount, 403 when the
\* amount exceeds max_trade_bdc; a call is rejected whenever one of these
\* holds, and every rejected call leaves all wallets, all outcome pools, all
\* trade lists and all ledgers as they were.
C11_TradeRejections ==
    \A m \in Markets, q \in TradeRequests :
        LET r == create_trade(store, now, m, q.payload, q.request_bot_id, q.key_ok)
            b == q.payload.bot_id
            a == q.payload.amount_bdc
            known == b \in DOMAIN store.bots
            inactive == known /\ store.bot_policies[b].status # "active"
            limited == known /\ RateLimited(b)
            foreign == q.payload.outcome_id \notin Range(store.markets[m].outcomes)
            short == known /\ RLt(store.bots[b].wallet_balance_bdc, a)
            over == known /\ RLt(store.bot_policies[b].max_trade_bdc, a)
        IN /\ ~IsOpen(m) => r.code = 409
           /\ IsOpen(m) /\ Authentic(q, b) =>
                 /\ inactive => r.code = 403
                 /\ ~inactive /\ limited => r.code = 429
                 /\ ~inactive /\ ~limited /\ foreign => r.code = 400
                 /\ ~inactive /\ ~limited /\ ~foreign /\ short => r.code = 400
                 /\ ~inactive /\ ~limited /\ ~foreign /\ ~short /\ over => r.code = 403
           /\ ~IsOpen(m) \/ inactive \/ limited \/ foreign \/ short \/ over =>
                 r.code \in {409, 403, 429, 400, 401, 404}
           /\ r.code # 200 =>
                 /\ r.s.bots = store.bots
                 /\ r.s.ledger = store.ledger
                 /\ r.s.trades = store.trades
                 /\ \A n \in Markets : r.s.markets[n].outcome_pools = Pools(n)

\* the answer of create_trade to request q on market m
TradeCode(m, q) ==
    create_trade(store, now, m, q.payload, q.request_bot_id, q.key_ok).code

\* a closed market that holds a trade (every trade on it is answered 409) next
\* to an open market with trades on which an inactive bot is answered 403, a
\* rate-limited one 429, and the third bot 400 for a foreign outcome or an
\* amount above its balance and 403 for one above its trade limit
C11_Witness ==
    \E m, n \in Markets :
        /\ ~IsOpen(n) /\ store.trades[n] # <<>>
        /\ \A q \in TradeRequests : TradeCode(n, q) = 409
        /\ IsOpen(m) /\ store.trades[m] # <<>>
        /\ TradeCode(m, Request(Idle, TRUE, TradeCreate(Idle, "YES", R(2)))) = 403
        /\ \E q \in TradeRequests : TradeCode(m, q) = 429
        /\ \E q, q2, q3 \in TradeRequests :
               /\ q.payload.outcome_id = "MAYBE" /\ TradeCode(m, q) = 400
               /\ q2.payload.amount_bdc = R(13) /\ TradeCode(m, q2) = 400
               /\ q3.payload.amount_bdc = R(4) /\ TradeCode(m, q3) = 403

\* this step is the resolve_market call of request q on market m
Resolves(m, q) ==
    store' = resolve_market(store, now, m, q.payload, q.request_bot_id, q.key_ok).s

\* C12: a resolve_market call resolves a market only when the market is
\* closed, that is when now >= closes_at: no resolve call made before the
\* closes_at of a market turns that market resolved.
C12_ResolveOnlyClosed ==
    [][\A m \in Markets, q \in ResolutionRequests :
          Resolves(m, q) /\ Settles(m) => now >= store.markets[m].closes_at
      ]_vars

\* the answer of resolve_market to request q on market m, and the store it leaves
Resolve(m, q) == resolve_market(store, now, m, q.payload, q.request_bot_id, q.key_ok)

\* the caller of q may act: it names a registered bot with that bot's key, the
\* bot is active, has requests left in its window, and passes the balance or
\* reputation gate and the daily quota of its policy
MayAct(q) ==
    LET b == q.request_bot_id
        policy == store.bot_policies[b]
    IN /\ b \in DOMAIN store.bots /\ q.key_ok
       /\ policy.status = "active"
       /\ ~RateLimited(b)
       /\ \/ RLe(policy.min_balance_bdc_for_resolution, store.bots[b].wallet_balance_bdc)
          \/ RLe(policy.min_reputation_score_for_resolution,
                 store.bots[b].reputation_score)
       /\ policy.max_resolutions_per_day <= 0

\* the resolver list of q is in order: not empty, without repeats, the caller
\* in it, every resolver registered
ListInOrder(q) ==
    LET ids == q.payload.resolver_bot_ids
    IN /\ ids # <<>>
       /\ \A i, j \in 1..Len(ids) : ids[i] = ids[j] => i = j
       /\ q.request_bot_id \in Range(ids)
       /\ Range(ids) \subseteq DOMAIN store.bots

\* the votes of q are one per listed resolver, each for an outcome of market m
OneVoteEach(m, q) ==
    LET ids == q.payload.resolver_bot_ids
        votes == q.payload.votes
    IN /\ \A b \in Range(ids) :
              Cardinality({i \in 1..Len(votes) : votes[i].resolver_bot_id = b}) = 1
       /\ \A i \in 1..Len(votes) :
              /\ votes[i].resolver_bot_id \in Range(ids)
              /\ votes[i].outcome_id \in Range(store.markets[m].outcomes)

\* q reaches the vote count of market m: nothing before it rejects the call
ReachesCount(m, q) ==
    /\ ~Resolved(m)
    /\ ListInOrder(q) /\ MayAct(q)
    /\ Len(q.payload.resolver_bot_ids) >= 2
    /\ OneVoteEach(m, q)

\* the number of the votes that name outcome o
Tally(votes, o) == Len(SelectSeq(votes, LAMBDA v : v.outcome_id = o))

\* the outcomes named by more than half of the votes
MajorityOf(votes) ==
    {o \in {votes[i].outcome_id : i \in 1..Len(votes)} :
        2 * Tally(votes, o) > Len(votes)}

\* the caller of q can pay its resolution stake
CanStake(q) ==
    RLe(store.bot_policies[q.request_bot_id].stake_bdc_resolution,
        store.bots[q.request_bot_id].wallet_balance_bdc)

\* C13: on a market of the majority policy a resolve call succeeds only for
\* the one outcome named by strictly more than half of the votes, which it
\* stores as the resolution; when no outcome has more than half (every tie
\* included) the call does not resolve the market, and it answers 409 when
\* nothing before the count rejects it; a call that reaches the count with a
\* majority for w, no contradicting resolved_outcome_id and the stake covered
\* succeeds.
C13_MajorityWins ==
    \A m \in Markets, q \in VoteRequests :
        store.markets[m].resolver_policy = "majority" /\ ~Resolved(m) =>
            LET r == Resolve(m, q)
                winners == MajorityOf(q.payload.votes)
            IN /\ r.code = 200 =>
                      /\ winners = {r.s.resolutions[m].resolved_outcome_id}
                      /\ r.s.markets[m].status = "resolved"
               /\ winners = {} =>
                      /\ r.code # 200
                      /\ r.s.markets[m].status # "resolved"
                      /\ m \notin DOMAIN r.s.resolutions
                      /\ ReachesCount(m, q) => r.code = 409
               /\ Cardinality(winners) <= 1
               /\ \A w \in winners :
                      /\ ReachesCount(m, q)
                      /\ q.payload.resolved_outcome_id \in {None, w}
                      /\ CanStake(q)
                      => r.code = 200

\* a majority market resolved by two votes of three against the third, the
\* ballot stored with the resolution
C13_Witness ==
    \E m \in Markets :
        /\ store.markets[m].resolver_policy = "majority" /\ Resolved(m)
        /\ Len(store.resolution_votes[m]) = 3
        /\ Tally(store.resolution_votes[m], store.resolutions[m].resolved_outcome_id) = 2
        /\ store.resolutions[m].resolved_outcome_id = "YES"

\* the reputations of the resolvers whose votes name outcome o, added up
WeightFor(votes, o) ==
    SeqSum([i \in 1..Len(votes) |->
               IF votes[i].outcome_id = o
               THEN store.bots[votes[i].resolver_bot_id].reputation_score
               ELSE R(0)])

\* the reputations of all voting resolvers, added up
TotalWeight(votes) ==
    SeqSum([i \in 1..Len(votes) |-> store.bots[votes[i].resolver_bot_id].reputation_score])

\* the outcomes that carry more than half of the total weight
ConsensusOf(votes) ==
    {o \in {votes[i].outcome_id : i \in 1..Len(votes)} :
        RLt(TotalWeight(votes), RMul(R(2), WeightFor(votes, o)))}

\* C14: on a market of the consensus policy every vote weighs the reputation
\* of its resolver; a resolve call succeeds only for the one outcome whose
\* summed weight is strictly more than half of the total weight; a call that
\* reaches the count is answered 400 when the total weight is <= 0 and 409
\* when the total is positive and no outcome has more than half of it, and in
\* both cases the market stays unresolved; a call that reaches the count with
\* such an outcome w, no contradicting resolved_outcome_id and the stake
\* covered succeeds.
C14_ConsensusByReputation ==
    \A m \in Markets, q \in VoteRequests :
        store.markets[m].resolver_policy = "consensus" /\ ~Resolved(m) =>
            LET r == Resolve(m, q)
                votes == q.payload.votes
                winners == IF ReachesCount(m, q) THEN ConsensusOf(votes) ELSE {}
            IN /\ r.code = 200 =>
                      /\ ReachesCount(m, q)
                      /\ winners = {r.s.resolutions[m].resolved_outcome_id}
                      /\ r.s.markets[m].status = "resolved"
               /\ winners = {} =>
                      /\ r.code # 200
                      /\ r.s.markets[m].status # "resolved"
                      /\ m \notin DOMAIN r.s.resolutions
               /\ ReachesCount(m, q) =>
                      /\ RLe(TotalWeight(votes), R(0)) => r.code = 400
                      /\ RLt(R(0), TotalWeight(votes)) /\ winners = {} => r.code = 409
                      /\ Cardinality(winners) <= 1
                      /\ \A w \in winners :
                             /\ q.payload.resolved_outcome_id \in {None, w}
                             /\ CanStake(q)
                             => r.code = 200

\* a consensus market resolved to NO by the vote of the resolver of
\* reputation 2 against the vote for YES of a resolver of reputation 1
C14_Witness ==
    \E m \in Markets :
        /\ store.markets[m].resolver_policy = "consensus" /\ Resolved(m)
        /\ store.resolutions[m].resolved_outcome_id = "NO"
        /\ store.resolution_votes[m] = <<Vote("b1", "NO"), Vote("b2", "YES")>>
        /\ store.bots["b1"].reputation_score = R(2)
        /\ store.bots["b2"].reputation_score = R(1)

\* q breaks the rule of market m's policy on the resolver list: under single,
\* other than one resolver id or a resolved_outcome_id that is no outcome of
\* the market (or none at all); under majority and consensus, fewer than two
\* resolver ids
BreaksPolicy(m, q) ==
    IF store.markets[m].resolver_policy = "single"
    THEN \/ Len(q.payload.resolver_bot_ids) # 1
         \/ q.payload.resolved_outcome_id \notin Range(store.markets[m].outcomes)
    ELSE Len(q.payload.resolver_bot_ids) < 2

\* C15: a resolve call succeeds on a single-policy market only with exactly
\* one resolver id and a resolved_outcome_id among the market's outcomes, and
\* on a majority or consensus market only with at least two resolver ids; a
\* call that breaks its market's rule never resolves the market, and it is
\* answered 400 when the resolver list and the caller pass the checks made
\* before the policy's.
C15_PolicyResolverCount ==
    \A m \in Markets, q \in VoteRequests :
        ~Resolved(m) =>
            LET r == Resolve(m, q)
            IN /\ r.code = 200 => ~BreaksPolicy(m, q)
               /\ BreaksPolicy(m, q) =>
                      /\ r.code # 200
                      /\ r.s.markets[m].status # "resolved"
                      /\ m \notin DOMAIN r.s.resolutions
                      /\ ListInOrder(q) /\ MayAct(q) => r.code = 400

\* a single-policy market resolved by its one resolver next to a poll resolved
\* on the votes of three, while the third market, a poll, answers 400 to a
\* call that lists one resolver
C15_Witness ==
    \E m1, m2, m3 \in Markets :
        /\ Resolved(m1) /\ store.markets[m1].resolver_policy = "single"
        /\ Len(store.resolutions[m1].resolver_bot_ids) = 1
        /\ Resolved(m2) /\ store.markets[m2].resolver_policy # "single"
        /\ Len(store.resolutions[m2].resolver_bot_ids) = 3
        /\ ~Resolved(m3) /\ store.markets[m3].resolver_policy # "single"
        /\ \E q \in VoteRequests :
               Len(q.payload.resolver_bot_ids) = 1 /\ Resolve(m3, q).code = 400

\* market m resolves on votes: its policy is majority or consensus
IsPoll(m) == store.markets[m].resolver_policy \in {"majority", "consensus"}

\* the ballot holds exactly one vote of each listed resolver, none of anybody
\* else, each for one of the given outcomes
OnePerResolver(ids, votes, outcomes) ==
    /\ \A b \in Range(ids) :
           Cardinality({i \in 1..Len(votes) : votes[i].resolver_bot_id = b}) = 1
    /\ {votes[i].resolver_bot_id : i \in 1..Len(votes)} = Range(ids)
    /\ \A i \in 1..Len(votes) : votes[i].outcome_id \in Range(outcomes)

\* C16: on a majority or consensus market a resolve call succeeds only if the
\* voting resolvers are exactly the listed resolvers, with one vote each, and
\* every voted outcome is an outcome of the market; a ballot with a missing, a
\* repeated or a foreign vote or a foreign outcome never resolves the market
\* and is answered 400 when the checks before the ballot's pass; the votes
\* stored with a resolved poll are those of the call, one per listed resolver.
C16_OneVotePerResolver ==
    /\ \A m \in Markets, q \in VoteRequests :
           IsPoll(m) /\ ~Resolved(m) =>
               LET r == Resolve(m, q)
                   in_order == OnePerResolver(q.payload.resolver_bot_ids, q.payload.votes,
                                              store.markets[m].outcomes)
               IN /\ r.code = 200 =>
                         /\ in_order
                         /\ r.s.resolution_votes[m] = q.payload.votes
                         /\ r.s.resolutions[m].resolver_bot_ids =
                                q.payload.resolver_bot_ids
                  /\ ~in_order =>
                         /\ r.code # 200
                         /\ r.s.markets[m].status # "resolved"
                         /\ m \notin DOMAIN r.s.resolution_votes
                         /\ (/\ ListInOrder(q) /\ MayAct(q)
                             /\ Len(q.payload.resolver_bot_ids) >= 2) => r.code = 400
    /\ \A m \in Markets :
           IsPoll(m) /\ Resolved(m) =>
               /\ m \in DOMAIN store.resolution_votes
               /\ OnePerResolver(store.resolutions[m].resolver_bot_ids,
                                 store.resolution_votes[m], store.markets[m].outcomes)

\* both polls resolved, one on a ballot of two and one on a ballot of three,
\* each stored ballot holding one vote per listed resolver
C16_Witness ==
    \E m, n \in Markets :
        /\ IsPoll(m) /\ Resolved(m) /\ Len(store.resolution_votes[m]) = 2
        /\ IsPoll(n) /\ Resolved(n) /\ Len(store.resolution_votes[n]) = 3
        /\ store.resolutions[n].resolver_bot_ids = <<"b1", "b2", Idle>>

\* C17: a resolve_market call resolves a market only if its resolver id list
\* is not empty and has no repeats, its caller is in the list and holds the
\* key of a registered bot, and that bot's policy status is active; an empty
\* or repeating list is answered 400, a caller outside an otherwise proper
\* list 403, and an authenticated caller in the list whose status is not
\* active 403.
C17_ResolverMustBeListedAndActive ==
    \A m \in Markets, q \in VoteRequests :
        ~Resolved(m) =>
            LET r == Resolve(m, q)
                ids == q.payload.resolver_bot_ids
                b == q.request_bot_id
                proper == ids # <<>> /\ Cardinality(Range(ids)) = Len(ids)
            IN /\ r.s.markets[m].status = "resolved" \/ r.code = 200 =>
                      /\ proper
                      /\ b \in Range(ids)
                      /\ b \in DOMAIN store.bots /\ q.key_ok
                      /\ store.bot_policies[b].status = "active"
                      /\ r.s.resolutions[m].resolver_bot_ids = ids
               /\ ~proper => r.code = 400
               /\ proper /\ b \notin Range(ids) => r.code = 403
               /\ (/\ proper /\ b \in Range(ids) /\ b \in DOMAIN store.bots /\ q.key_ok
                   /\ store.bot_policies[b].status # "active") => r.code = 403

\* the status of the third bot
IdleStatus == store.bot_policies[Idle].status

\* a market resolved by an active bot of its list, in a process whose third
\* bot has paused itself, holds the reputation that passes the gate, and is
\* answered 403 on the markets still open
C17_Witness ==
    /\ IdleStatus = "paused"
    /\ store.bots[Idle].reputation_score = R(1)
    /\ \E m, n \in Markets :
           /\ Resolved(m)
           /\ store.bot_policies[store.resolutions[m].resolver_bot_ids[1]].status = "active"
           /\ ~Resolved(n)
           /\ Resolve(n, Request(Idle, TRUE, Resolution(<<Idle>>, "YES", <<>>))).code = 403

\* the resolved markets of a store
ResolvedIn(s) == {n \in 1..Len(s.markets) : s.markets[n].status = "resolved"}

\* the stake the policy of bot b sets for the charge of the given reason
StakeOf(b, reason) ==
    IF reason = "market_stake" THEN store.bot_policies[b].stake_bdc_market
    ELSE store.bot_policies[b].stake_bdc_resolution

StakeReasons == {"market_stake", "resolution_stake"}

\* the stake entries among the given ledger entries
StakeEntries(entries) == SelectSeq(entries, LAMBDA e : e.reason \in StakeReasons)

\* the stake entries this step appends to the ledger of bot b
NewStakes(b) == StakeEntries(Appended(store.ledger[b], store'.ledger[b]))

\* the alerts this step records for a stake that could not be met
NewStakeAlerts ==
    SelectSeq(Appended(store.alerts, store'.alerts),
              LAMBDA al : al.alert_type = "stake_requirement")

\* the entry with the delta negated: what the treasury books for a bot's entry
Mirror(e) == [e EXCEPT !.delta_bdc = RSub(R(0), e.delta_bdc)]

\* C18: a stake charge of amount s > 0, for a market creation or a
\* resolution, takes exactly s off the bot's wallet with one ledger entry of
\* -s and adds exactly s to the treasury balance with one treasury entry of +s
\* of the same reason and market, so that wallet + treasury stays what it was;
\* a bot whose balance is below s is answered 403 and no wallet, ledger,
\* treasury balance or treasury entry changes. Every market a step creates and
\* every market a resolve call resolves has had the stake of the acting bot's
\* policy charged in that step, mirrored in the treasury ledger.
C18_StakeMovesToTreasury ==
    /\ [](\A b \in BotIds, reason \in StakeReasons, m \in Markets :
             LET s == StakeOf(b, reason)
                 wallet == store.bots[b].wallet_balance_bdc
                 r == apply_stake(store, now, b, s, reason, m)
             IN RLt(R(0), s) =>
                    IF RLe(s, wallet)
                    THEN /\ r.code = 0
                         /\ r.s.bots[b].wallet_balance_bdc = RSub(wallet, s)
                         /\ r.s.ledger[b] =
                                Append(store.ledger[b],
                                       [market_id |-> m, delta_bdc |-> RSub(R(0), s),
                                        reason |-> reason])
                         /\ r.s.treasury_balance_bdc = RAdd(store.treasury_balance_bdc, s)
                         /\ r.s.treasury_ledger =
                                Append(store.treasury_ledger,
                                       [market_id |-> m, delta_bdc |-> s, reason |-> reason])
                         /\ RAdd(r.s.bots[b].wallet_balance_bdc, r.s.treasury_balance_bdc)
                                = RAdd(wallet, store.treasury_balance_bdc)
                         /\ \A c \in DOMAIN store.bots \ {b} :
                                r.s.bots[c] = store.bots[c] /\ r.s.ledger[c] = store.ledger[c]
                    ELSE /\ r.code = 403
                         /\ r.s.bots = store.bots
                         /\ r.s.ledger = store.ledger
                         /\ r.s.treasury_balance_bdc = store.treasury_balance_bdc
                         /\ r.s.treasury_ledger = store.treasury_ledger)
    /\ [][/\ \A b \in BotIds :
                 /\ Len(NewStakes(b)) <= 1
                 /\ \A i \in 1..Len(NewStakes(b)) :
                        /\ NewStakes(b)[i].delta_bdc =
                               RSub(R(0), StakeOf(b, NewStakes(b)[i].reason))
                        /\ RLt(NewStakes(b)[i].delta_bdc, R(0))
                        /\ StakeEntries(NewTreasuryEntries) = <<Mirror(NewStakes(b)[i])>>
          /\ StakeEntries(NewTreasuryEntries) # <<>> => \E b \in BotIds : NewStakes(b) # <<>>
          /\ NewStakeAlerts # <<>> =>
                 /\ store'.bots = store.bots
                 /\ store'.ledger = store.ledger
                 /\ store'.treasury_balance_bdc = store.treasury_balance_bdc
                 /\ store'.treasury_ledger = store.treasury_ledger
                 /\ Len(store'.markets) = Len(store.markets)
                 /\ ResolvedIn(store') = ResolvedIn(store)
          /\ \A m \in (1..Len(store'.markets)) \ Markets :
                 LET b == store'.markets[m].creator_bot_id
                 IN /\ RLt(R(0), StakeOf(b, "market_stake")) =>
                           /\ Len(NewStakes(b)) = 1
                           /\ NewStakes(b)[1].reason = "market_stake"
                    /\ StakeOf(b, "market_stake") = R(0) => NewStakes(b) = <<>>
                    /\ RAdd(store'.bots[b].wallet_balance_bdc, store'.treasury_balance_bdc)
                           = RAdd(store.bots[b].wallet_balance_bdc,
                                  store.treasury_balance_bdc)
          /\ \A m \in Markets, q \in ResolutionRequests :
                 Resolves(m, q) /\ Settles(m) =>
                     LET b == q.request_bot_id
                     IN /\ RLt(R(0), StakeOf(b, "resolution_stake")) =>
                               NewStakes(b) =
                                   <<[market_id |-> m,
                                      delta_bdc |-> RSub(R(0), StakeOf(b, "resolution_stake")),
                                      reason |-> "resolution_stake"]>>
                        /\ StakeOf(b, "resolution_stake") = R(0) => NewStakes(b) = <<>>
         ]_vars

\* a treasury that holds the stake of a market created and of a resolution
\* made after the start, next to a bot that raised its stakes above its
\* balance and was refused, and a bot that set its stakes to 0
C18_Witness ==
    /\ \E i \in 1..Len(store.treasury_ledger) :
           store.treasury_ledger[i].reason = "resolution_stake"
    /\ Len(SelectSeq(store.treasury_ledger, LAMBDA e : e.reason = "market_stake")) = 2
    /\ \E i \in 1..Len(store.alerts) :
           /\ store.alerts[i].alert_type = "stake_requirement"
           /\ RLt(store.bots[store.alerts[i].bot_id].wallet_balance_bdc,
                  StakeOf(store.alerts[i].bot_id, "market_stake"))

\* C19: a resolve_market call that answers with an error, whatever the
\* market (an unknown one included), the caller and the payload, charges no
\* stake: it changes no wallet, no ledger, neither the treasury balance nor
\* the treasury ledger, stores no Resolution and no votes and resolves no
\* market; a call that succeeds charges the stake first: the caller's
\* resolution_stake entry and the treasury's come before every other entry the
\* call appends.
C19_FailedResolveChargesNothing ==
    \A m \in 1..(Len(store.markets) + 1), q \in VoteRequests :
        LET r == Resolve(m, q)
            b == q.request_bot_id
            entries == Appended(store.ledger[b], r.s.ledger[b])
            treasury == Appended(store.treasury_ledger, r.s.treasury_ledger)
            stake == [market_id |-> m, delta_bdc |-> StakeOf(b, "resolution_stake"),
                      reason |-> "resolution_stake"]
        IN /\ r.code # 200 =>
                  /\ r.s.bots = store.bots
                  /\ r.s.ledger = store.ledger
                  /\ r.s.treasury_balance_bdc = store.treasury_balance_bdc
                  /\ r.s.treasury_ledger = store.treasury_ledger
                  /\ r.s.resolutions = store.resolutions
                  /\ r.s.resolution_votes = store.resolution_votes
                  /\ ResolvedIn(r.s) = ResolvedIn(store)
           /\ r.code = 200 =>
                  /\ ResolvedIn(r.s) = ResolvedIn(store) \cup {m}
                  /\ m \notin ResolvedIn(store)
                  /\ RLt(R(0), stake.delta_bdc) =>
                         /\ entries # <<>> /\ entries[1] = Mirror(stake)
                         /\ treasury # <<>> /\ treasury[1] = stake
                         /\ Len(StakeEntries(entries)) = 1
                         /\ Len(StakeEntries(treasury)) = 1
                  /\ stake.delta_bdc = R(0) =>
                         StakeEntries(entries) = <<>> /\ StakeEntries(treasury) = <<>>

\* the answers resolve_market gives in this state to the requests on market m
Answers(m) == {Resolve(m, q).code : q \in VoteRequests}

\* a resolved market, on which every resolve call is answered 409, and an
\* unresolved one, on which resolve calls are answered with 400, 401, 403, 404
\* and 429, among them the 403 of a caller that passes every validation and
\* whose balance is below its resolution stake
C19_Witness ==
    \E m, n \in Markets :
        /\ Resolved(m) /\ Answers(m) = {409}
        /\ ~Resolved(n)
        /\ {400, 401, 403, 404, 429} \subseteq Answers(n)
        /\ \E q \in VoteRequests :
               /\ ListInOrder(q) /\ MayAct(q) /\ ~BreaksPolicy(n, q)
               /\ ~CanStake(q)
               /\ Resolve(n, q).code = 403

\* the recorded requests of bot b that lie in the trailing window, in order
WindowLog(b) ==
    SelectSeq(store.bot_request_log[b],
              LAMBDA ts : ts >= now - RATE_LIMIT_WINDOW_SECONDS)

Limit(b) == store.bot_policies[b].max_requests_per_minute

\* the rate_limit alerts of bot b among the given alerts
RateAlerts(alerts, b) ==
    SelectSeq(alerts, LAMBDA al : al.alert_type = "rate_limit" /\ al.bot_id = b)

\* C20: for every bot, with L its max_requests_per_minute: a request that
\* authenticates while L or more recorded timestamps lie in the trailing 60 s
\* is answered 429, records one rate_limit alert and appends no timestamp;
\* otherwise it passes and its timestamp is appended to those of the window.
\* The log never holds more than L timestamps, any L + 1 requests accepted one
\* after the other span more than 60 s, and a request made after the oldest
\* recorded timestamp has left the window is accepted.
C20_RateLimitWindow ==
    /\ [](\A b \in BotIds :
             LET r == authenticate_bot(store, now, b, b, TRUE, FALSE)
                 d == deposit_bdc(store, now, b, R(12), "deposit", b, TRUE)
                 log == store.bot_request_log[b]
             IN /\ IF Len(WindowLog(b)) >= Limit(b)
                   THEN /\ r.code = 429 /\ d.code = 429
                        /\ d.s = r.s
                        /\ r.s.bot_request_log[b] = WindowLog(b)
                        /\ r.s.alerts = Append(store.alerts,
                                               [alert_type |-> "rate_limit", bot_id |-> b])
                        /\ r.s.bots = store.bots
                   ELSE /\ r.code = 0 /\ d.code = 200
                        /\ r.s.bot_request_log[b] = Append(WindowLog(b), now)
                        /\ d.s.bot_request_log[b] = Append(WindowLog(b), now)
                        /\ r.s.alerts = store.alerts
                /\ Len(log) <= Limit(b)
                /\ \A i, j \in 1..Len(log) : i <= j => log[i] <= log[j]
                /\ (log # <<>> /\ log[1] < now - RATE_LIMIT_WINDOW_SECONDS) => r.code = 0)
    /\ [][\A b \in BotIds :
             LET old == store.bot_request_log[b]
                 new == store'.bot_request_log[b]
             IN /\ Limit(b)' = Limit(b)
                /\ new # old =>
                       \/ /\ new = Append(WindowLog(b), now)
                          /\ Len(new) <= Limit(b)
                          /\ RateAlerts(store'.alerts, b) = RateAlerts(store.alerts, b)
                       \/ /\ new = WindowLog(b)
                          /\ Len(new) >= Limit(b)
                          /\ Len(RateAlerts(store'.alerts, b)) =
                                 Len(RateAlerts(store.alerts, b)) + 1
                /\ Len(RateAlerts(store'.alerts, b)) > Len(RateAlerts(store.alerts, b)) =>
                       /\ Len(WindowLog(b)) >= Limit(b)
                       /\ new = WindowLog(b)
                       /\ store'.bots = store.bots
         ]_vars

\* a bot limited to two requests a minute that has had a request refused, has
\* since made two requests twenty seconds or more apart, and whose older
\* timestamp has just left the window, so that its next request is accepted
C20_Witness ==
    /\ Limit("b1") = 2
    /\ RateAlerts(store.alerts, "b1") # <<>>
    /\ Len(store.bot_request_log["b1"]) = 2
    /\ store.bot_request_log["b1"][1] < store.bot_request_log["b1"][2]
    /\ store.bot_request_log["b1"][1] < now - RATE_LIMIT_WINDOW_SECONDS
    /\ store.bot_request_log["b1"][2] >= now - RATE_LIMIT_WINDOW_SECONDS
    /\ authenticate_bot(store, now, "b1", "b1", TRUE, FALSE).code = 0

\* the actions that have a daily quota
QuotaActions == {"market_create", "resolve_market"}

\* the daily limit the policy of bot b sets for action a
DayLimit(b, a) ==
    IF a = "market_create" THEN store.bot_policies[b].max_markets_per_day
    ELSE store.bot_policies[b].max_resolutions_per_day

\* the recorded times of action a of bot b that lie in the trailing day
InDay(b, a) ==
    SelectSeq(store.bot_action_log[b][a], LAMBDA e : e >= now - ACTION_WINDOW_SECONDS)

\* bot b has used up its daily quota of action a
OverQuota(b, a) == DayLimit(b, a) > 0 /\ Len(InDay(b, a)) >= DayLimit(b, a)

\* the quota_exceeded alerts among the alerts
QuotaAlerts(alerts) == SelectSeq(alerts, LAMBDA al : al.alert_type = "quota_exceeded")

\* the step is a successful action a of bot b: a market of b is added, or a
\* market is resolved by a call of b
Made(b, a) ==
    IF a = "market_create"
    THEN /\ Len(store'.markets) = Len(store.markets) + 1
         /\ store'.markets[Len(store'.markets)].creator_bot_id = b
    ELSE \E m \in Markets :
             /\ Settles(m)
             /\ EventsOfType(store.events, store'.events, "market_resolved")
                    = <<[event_type |-> "market_resolved", market_id |-> m, bot_id |-> b]>>

\* the market creations attempted: those of the two bots, one with a wrong
\* key, one in another bot's name, one of the bot that never became active
AttemptedMarkets ==
    QuotaMarketRequests \cup MarketRequests
    \cup { Request("b1", FALSE, MarketCreate("b1", "single", 43383)),
           Request("b2", TRUE, MarketCreate("b1", "single", 43383)),
           Request(Idle, TRUE, MarketCreate(Idle, "single", 43383)) }

\* the creation q reaches the quota check: an authentic request of an active
\* bot with requests left that passes the balance or reputation gate
ReachesMarketQuota(q) ==
    LET b == q.payload.creator_bot_id
        policy == store.bot_policies[b]
    IN /\ Authentic(q, b)
       /\ policy.status = "active"
       /\ ~RateLimited(b)
       /\ \/ RLe(policy.min_balance_bdc_for_market, store.bots[b].wallet_balance_bdc)
          \/ RLe(policy.min_reputation_score_for_market, store.bots[b].reputation_score)

\* the resolve call q on market m reaches the quota check
ReachesResolveQuota(m, q) ==
    LET b == q.request_bot_id
        ids == q.payload.resolver_bot_ids
        policy == store.bot_policies[b]
    IN /\ ~Resolved(m)
       /\ ids # <<>>
       /\ \A i, j \in 1..Len(ids) : ids[i] = ids[j] => i = j
       /\ b \in Range(ids)
       /\ Authentic(q, b)
       /\ policy.status = "active"
       /\ ~RateLimited(b)
       /\ \/ RLe(policy.min_balance_bdc_for_resolution, store.bots[b].wallet_balance_bdc)
          \/ RLe(policy.min_reputation_score_for_resolution,
                 store.bots[b].reputation_score)

\* the store r.s is the store after a call of bot b was refused for its quota
\* of action a: one more alert, quota_exceeded of b, and no market, no
\* resolution and no recorded action more
RefusedForQuota(r, b, a) ==
    /\ r.code = 429
    /\ r.s.alerts = Append(store.alerts, [alert_type |-> "quota_exceeded", bot_id |-> b])
    /\ Len(r.s.markets) = Len(store.markets)
    /\ r.s.resolutions = store.resolutions
    /\ ResolvedIn(r.s) = ResolvedIn(store)
    /\ r.s.bot_action_log[b][a] = InDay(b, a)
    /\ \A c \in BotIds, x \in QuotaActions :
           <<c, x>> # <<b, a>> => r.s.bot_action_log[c][x] = store.bot_action_log[c][x]

\* C21: for each bot b and each action a of market_create and resolve_market
\* with daily limit N: the action log of (b, a) holds exactly the times of
\* b's successful actions a of the trailing 86,400 s (a successful action
\* appends the present time, nothing else is added and only older times are
\* dropped, and the log of no other bot or action grows), and an action
\* succeeds only while fewer than N of them lie in that window when N > 0, so
\* at most N succeed in any trailing day; an attempt that reaches the quota
\* check with N > 0 and N actions in the window is answered 429, records one
\* quota_exceeded alert of b and creates no market and no resolution; no
\* other attempt records a quota_exceeded alert (a limit of 0 never rejects)
\* and, reaching the check, none is answered 429.
C21_DailyQuota ==
    /\ [](/\ \A q \in AttemptedMarkets :
                LET b == q.payload.creator_bot_id
                    r == create_market(store, now, q.payload, q.request_bot_id, q.key_ok)
                IN IF b \in BotIds /\ ReachesMarketQuota(q) /\ OverQuota(b, "market_create")
                   THEN RefusedForQuota(r, b, "market_create")
                   ELSE /\ QuotaAlerts(r.s.alerts) = QuotaAlerts(store.alerts)
                        /\ b \in BotIds /\ ReachesMarketQuota(q) => r.code # 429
          /\ \A m \in Markets, q \in VoteRequests \cup QuotaResolutionRequests :
                LET b == q.request_bot_id
                    r == Resolve(m, q)
                IN IF b \in BotIds /\ ReachesResolveQuota(m, q)
                      /\ OverQuota(b, "resolve_market")
                   THEN RefusedForQuota(r, b, "resolve_market")
                   ELSE /\ QuotaAlerts(r.s.alerts) = QuotaAlerts(store.alerts)
                        /\ b \in BotIds /\ ReachesResolveQuota(m, q) => r.code # 429)
    /\ [][\A b \in BotIds, a \in QuotaActions :
              IF Made(b, a)
              THEN /\ ~OverQuota(b, a)
                   /\ store'.bot_action_log[b][a] = Append(InDay(b, a), now)
              ELSE store'.bot_action_log[b][a]
                       \in {store.bot_action_log[b][a], InDay(b, a)}
      ]_vars

\* b1, limited to one market a day, has created a market and was refused
\* another; a day and a half after its market it has resolved a market, and
\* b2, without limits, has created a market
C21_Witness ==
    /\ DayLimit("b1", "market_create") = 1
    /\ Len(store.markets) = 2
    /\ store.markets[1].creator_bot_id = "b1"
    /\ store.markets[2].creator_bot_id = "b2"
    /\ store.alerts = <<[alert_type |-> "quota_exceeded", bot_id |-> "b1"]>>
    /\ store.bot_action_log["b1"]["market_create"] = <<183>>
    /\ store.bot_action_log["b1"]["resolve_market"] = <<129783>>
    /\ store.bot_request_log["b1"] = <<129783>>
    /\ now = 129783

\* market m is due to close: still open with closes_at reached
Due(m) == store.markets[m].status = "open" /\ now >= store.markets[m].closes_at

\* the market_closed events of market m among the events
ClosedEvents(events, m) ==
    SelectSeq(events, LAMBDA ev : ev.event_type = "market_closed" /\ ev.market_id = m)

\* the market_closed event of market m
ClosedEvent(m) ==
    [event_type |-> "market_closed", market_id |-> m,
     bot_id |-> store.markets[m].creator_bot_id]

\* C22: close_expired_markets turns exactly the markets that are open with
\* closes_at reached to closed, with one market_closed event each, and a step
\* of the lifecycle job does so for every such market (an enabled
\* auto-resolution then resolves the single-policy ones in the same tick);
\* on every step, of the job or of a request handler, a market_closed event
\* of a market is appended only when the market was open and due, and then
\* exactly one; over the run no market has more than one market_closed event:
\* an open market has none and a closed market has one.
C22_CloseOnceWhenDue ==
    /\ [](/\ LET s1 == close_expired_markets(store, now)
             IN \A m \in Markets :
                    IF Due(m)
                    THEN /\ s1.markets[m] = [store.markets[m] EXCEPT !.status = "closed"]
                         /\ ClosedEvents(Appended(store.events, s1.events), m)
                                = <<ClosedEvent(m)>>
                    ELSE /\ s1.markets[m] = store.markets[m]
                         /\ ClosedEvents(Appended(store.events, s1.events), m) = <<>>
          /\ \A m \in Markets :
                 /\ Len(ClosedEvents(store.events, m)) <= 1
                 /\ store.markets[m].status = "open"
                        => ClosedEvents(store.events, m) = <<>>
                 /\ store.markets[m].status = "closed"
                        => ClosedEvents(store.events, m) = <<ClosedEvent(m)>>)
    /\ [][/\ IsPrefix(store.events, store'.events)
          /\ \A m \in Markets :
                 /\ ClosedEvents(Appended(store.events, store'.events), m)
                        \in {<<>>, <<ClosedEvent(m)>>}
                 /\ ClosedEvents(Appended(store.events, store'.events), m) # <<>>
                        => Due(m)
                 /\ (store.markets[m].status = "open"
                        /\ store'.markets[m].status = "closed")
                        => ClosedEvents(Appended(store.events, store'.events), m) # <<>>
                 /\ store.markets[m].status # "open"
                        => store'.markets[m].status # "open"
          /\ MarketLifecycleJob =>
                 \A m \in Markets :
                     Due(m) =>
                         /\ ClosedEvents(Appended(store.events, store'.events), m)
                                = <<ClosedEvent(m)>>
                         /\ store'.markets[m].status =
                                IF AUTO_RESOLVE_ENABLED
                                   /\ store.markets[m].resolver_policy = "single"
                                THEN "resolved" ELSE "closed"
      ]_vars

\* market 2 was closed when its closes_at was reached and resolved by a later
\* call, whose lazy close found it closed: its one market_closed event is
\* followed by its market_resolved event
C22_Witness ==
    /\ Len(store.markets) = 2
    /\ store.markets[2].status = "resolved"
    /\ store.markets[2].resolver_policy = "majority"
    /\ \E i, j \in 1..Len(store.events) :
           /\ i < j
           /\ store.events[i] = ClosedEvent(2)
           /\ store.events[j].event_type = "market_resolved"
           /\ store.events[j].market_id = 2
    /\ Len(ClosedEvents(store.events, 2)) = 1

\* the outcomes of market m that hold its largest pool
LargestPools(m) ==
    {o \in DOMAIN Pools(m) : \A p \in DOMAIN Pools(m) : RLe(Pools(m)[p], Pools(m)[o])}

\* C23: a step of the lifecycle job that auto-resolves a market resolves it to
\* an outcome with the largest pool and, when several outcomes share the
\* largest pool (all pools 0 included), to the lexicographically smallest
\* outcome id among them.
C23_AutoResolveSmallestOnTie ==
    [][MarketLifecycleJob =>
           \A m \in Markets :
               Settles(m) =>
                   LET o == store'.resolutions[m].resolved_outcome_id
                   IN /\ o \in LargestPools(m)
                      /\ \A p \in LargestPools(m) : StrRank(o) <= StrRank(p)
      ]_vars

\* market m is one auto-resolution acts on at the present time: closed (or
\* open and due, so that the tick closes it first), of the single policy and
\* without a Resolution
AutoCandidate(m) ==
    /\ store.markets[m].status = "closed" \/ Due(m)
    /\ store.markets[m].resolver_policy = "single"
    /\ m \notin DOMAIN store.resolutions

\* the reasons of the ledger entries a settlement writes
SettlementReasons == {"payout", "liquidity_distribution"}

\* C24: a step of the lifecycle job resolves exactly the markets that are
\* closed at that tick, of the single policy and without a Resolution, and
\* only when auto-resolution is enabled; a majority or consensus market is
\* never among them. For each it stores the Resolution with the market's
\* creator as the sole resolver and emits market_resolved in the creator's
\* name, whatever the creator's status. The step charges no stake (the only
\* ledger entries it writes are payouts and liquidity shares, the only
\* treasury entries resolution remainders), records no action in any quota
\* log, no request in any rate-limit log and no alert, and changes no policy.
C24_AutoResolveScope ==
    [][MarketLifecycleJob =>
          /\ \A m \in Markets :
                 /\ Settles(m) <=> (AUTO_RESOLVE_ENABLED /\ AutoCandidate(m))
                 /\ Settles(m) =>
                        /\ store'.resolutions[m].resolver_bot_ids
                               = <<store.markets[m].creator_bot_id>>
                        /\ EventsOfType(store.events, store'.events, "market_resolved")
                               # <<>>
                        /\ \E i \in 1..Len(store'.events) :
                               store'.events[i] =
                                   [event_type |-> "market_resolved", market_id |-> m,
                                    bot_id |-> store.markets[m].creator_bot_id]
                 /\ store.markets[m].resolver_policy # "single"
                        => store'.markets[m].status # "resolved" \/ Resolved(m)
          /\ Len(EventsOfType(store.events, store'.events, "market_resolved"))
                 = Cardinality({m \in Markets : Settles(m)})
          /\ store'.bot_request_log = store.bot_request_log
          /\ store'.bot_action_log = store.bot_action_log
          /\ store'.alerts = store.alerts
          /\ store'.bot_policies = store.bot_policies
          /\ \A b \in DOMAIN store.ledger :
                 /\ IsPrefix(store.ledger[b], store'.ledger[b])
                 /\ \A e \in Range(Appended(store.ledger[b], store'.ledger[b])) :
                        e.reason \in SettlementReasons /\ RLt(R(0), e.delta_bdc)
          /\ IsPrefix(store.treasury_ledger, store'.treasury_ledger)
          /\ \A e \in Range(NewTreasuryEntries) : e.reason = "resolution_remainder"
      ]_vars

\* b1, the creator of market 1, has paused with a resolution stake above its
\* balance; the market, traded on NO by b1 itself, was closed and
\* auto-resolved with b1 as its sole resolver: b1 has been paid, no resolve
\* action is in its quota log, and its last request is the policy update
C24_Witness ==
    /\ AUTO_RESOLVE_ENABLED
    /\ now = 244
    /\ store.bot_policies["b1"].status = "paused"
    /\ RLt(store.bots["b1"].wallet_balance_bdc, store.bot_policies["b1"].stake_bdc_resolution)
    /\ store.markets[1].status = "resolved"
    /\ store.resolutions[1].resolver_bot_ids = <<"b1">>
    /\ store.resolutions[1].resolved_outcome_id = "NO"
    /\ store.bot_action_log["b1"]["resolve_market"] = <<>>
    /\ store.bot_request_log["b1"] = <<244>>
    /\ \E i \in 1..Len(store.ledger["b1"]) : store.ledger["b1"][i].reason = "payout"
    /\ Len(store.markets) = 2
    /\ store.markets[2].resolver_policy = "majority"
    /\ store.markets[2].status = "closed"

\* webhook w subscribes to the event type: its filter is empty or holds it
Subscribes(w, event_type) == w.event_types = {} \/ event_type \in w.event_types

\* the outbox entries of event k for the webhook of the given id
OutboxFor(outbox, k, webhook_id) ==
    SelectSeq(outbox, LAMBDA e : e.event_id = k /\ e.webhook_id = webhook_id)

\* the ids of the registered webhooks
WebhookIds(s) == {s.webhooks[i].id : i \in 1..Len(s.webhooks)}

\* C25: on every step, each event the step appends gets, for every webhook
\* registered before the step, exactly one outbox entry when the webhook's
\* filter is empty or contains the event's type (with the webhook's id, the
\* event's id and type, status pending, attempts 0 and next_attempt_at = the
\* present time) and none otherwise; the step appends no other outbox entry
\* and changes none; a step that registers a webhook appends no event and no
\* entry, so a webhook gets no entry for events older than itself. In every
\* reachable state no event has two entries for the same webhook.
C25_EventFanOut ==
    /\ [](\A k \in 1..Len(store.events), w \in Range(store.webhooks) :
              /\ Len(OutboxFor(store.outbox, k, w.id)) <= 1
              /\ \A e \in Range(OutboxFor(store.outbox, k, w.id)) :
                     /\ e.event_type = store.events[k].event_type
                     /\ Subscribes(w, e.event_type)
                     /\ w.created_at <= e.next_attempt_at)
    /\ [][/\ IsPrefix(store.events, store'.events)
          /\ IsPrefix(store.outbox, store'.outbox)
          /\ IsPrefix(store.webhooks, store'.webhooks)
                 \/ Len(store'.webhooks) = Len(store.webhooks) + 1
          /\ \A k \in (Len(store.events) + 1)..Len(store'.events) :
                 \A w \in Range(store.webhooks) :
                     OutboxFor(store'.outbox, k, w.id) =
                         IF Subscribes(w, store'.events[k].event_type)
                         THEN <<[ webhook_id |-> w.id, event_id |-> k,
                                  event_type |-> store'.events[k].event_type,
                                  status |-> "pending", attempts |-> 0,
                                  next_attempt_at |-> now ]>>
                         ELSE <<>>
          /\ \A e \in Range(Appended(store.outbox, store'.outbox)) :
                 /\ e.event_id \in (Len(store.events) + 1)..Len(store'.events)
                 /\ e.webhook_id \in WebhookIds(store)
          /\ store'.webhooks # store.webhooks =>
                 /\ store'.events = store.events
                 /\ store'.outbox = store.outbox
                 /\ WebhookIds(store) \subseteq WebhookIds(store')
                 /\ Cardinality(WebhookIds(store')) = Len(store'.webhooks)
      ]_vars

\* b1 has subscribed to every event and b2 to market_created and
\* market_resolved; of the events since, a market_created has an entry for
\* both webhooks and a market_closed one for b1's webhook alone, while the
\* events older than the webhooks have none
C25_Witness ==
    /\ Len(store.webhooks) = 2
    /\ \E w1, w2 \in Range(store.webhooks) :
           /\ w1.event_types = {} /\ w1.bot_id = "b1"
           /\ w2.event_types = {"market_created", "market_resolved"}
           /\ \E j, k \in 1..Len(store.events) :
                  /\ store.events[j].event_type = "market_created"
                  /\ Len(OutboxFor(store.outbox, j, w1.id)) = 1
                  /\ Len(OutboxFor(store.outbox, j, w2.id)) = 1
                  /\ store.events[k].event_type = "market_closed"
                  /\ Len(OutboxFor(store.outbox, k, w1.id)) = 1
                  /\ OutboxFor(store.outbox, k, w2.id) = <<>>
           /\ \A k \in 1..3 : \A w \in {w1, w2} : OutboxFor(store.outbox, k, w.id) = <<>>
    /\ Len(store.outbox) = 3

RECURSIVE Delay(_)
\* the delay after the n-th failed attempt: the base backoff, doubled with
\* every further failure
Delay(n) == IF n <= 1 THEN WEBHOOK_BASE_BACKOFF_SECONDS ELSE 2 * Delay(n - 1)

\* the worker attempts entry e at the present time: pending or retrying, due
Attempted(e) == e.status \in {"pending", "retrying"} /\ e.next_attempt_at <= now

\* entry e after an attempt at the present time that was answered 2xx
AfterSuccess(e) == [e EXCEPT !.status = "delivered"]

\* entry e after an attempt at the present time that failed
AfterFailure(e) ==
    [e EXCEPT !.attempts = e.attempts + 1,
              !.next_attempt_at = now + Delay(e.attempts + 1),
              !.status = IF e.attempts + 1 >= WEBHOOK_MAX_ATTEMPTS
                         THEN "failed" ELSE "retrying"]

\* the answers a POST can get: status codes around the 2xx range, and no
\* answer at all
AnyResponses == {NetworkError, 199, 200, 204, 299, 300, 404, 500}

\* the entries of the outbox that the step has turned to failed
NewlyFailed ==
    {i \in 1..Len(store.outbox) :
        store.outbox[i].status # "failed" /\ store'.outbox[i].status = "failed"}

\* C26: an iteration of the worker in which every POST is answered with the
\* same response leaves an attempted entry delivered, attempts and
\* next_attempt_at untouched, when the response is 2xx, and otherwise with
\* attempts one higher, next_attempt_at = now + base_backoff * 2^(attempts-1)
\* for the new attempts (5 s after the first failure, doubled after each
\* further one) and status retrying, or failed once attempts >= max_attempts;
\* entries not attempted stay as they are. On every step of the worker each
\* entry is untouched, delivered or failed once more in this way, the attempt
\* counter of the metrics grows by the number of entries attempted and the
\* failure counter by one for each entry that became failed.
C26_DeliveryAttempt ==
    /\ [](\A response \in AnyResponses :
              LET r == webhook_delivery_job(store, metrics, now,
                                            [i \in 1..Len(store.outbox) |-> response])
              IN /\ Len(r.s.outbox) = Len(store.outbox)
                 /\ \A i \in 1..Len(store.outbox) :
                        LET e == store.outbox[i]
                        IN r.s.outbox[i] =
                               IF ~Attempted(e) THEN e
                               ELSE IF response \in 200..299 THEN AfterSuccess(e)
                               ELSE AfterFailure(e))
    /\ [][WebhookDeliveryJob =>
              /\ Len(store'.outbox) = Len(store.outbox)
              /\ \A i \in 1..Len(store.outbox) :
                     LET e == store.outbox[i]
                     IN IF Attempted(e)
                        THEN store'.outbox[i] \in {AfterSuccess(e), AfterFailure(e)}
                        ELSE store'.outbox[i] = e
              /\ metrics'.webhook_attempts = metrics.webhook_attempts
                     + Cardinality({i \in 1..Len(store.outbox) :
                                        Attempted(store.outbox[i])})
              /\ metrics'.webhook_failures = metrics.webhook_failures
                     + Cardinality(NewlyFailed)
              /\ \A i \in NewlyFailed :
                     store'.outbox[i].attempts >= WEBHOOK_MAX_ATTEMPTS
      ]_vars

\* the first entry has failed for good, 75 s after its creation, after
\* attempts at 0, 5, 15, 35 and 75 s, and the failure was counted once; the
\* second entry, created later, was delivered after two failures
C26_Witness ==
    /\ Len(store.outbox) = 2
    /\ store.outbox[1].status = "failed"
    /\ store.outbox[1].attempts = 5
    /\ store.outbox[1].next_attempt_at = 183 + 75 + 80
    /\ store.outbox[2].status = "delivered"
    /\ store.outbox[2].attempts = 2
    /\ store.outbox[2].next_attempt_at = 203 + 5 + 10
    /\ metrics = [webhook_attempts |-> 8, webhook_failures |-> 1]

\* entry e is in a terminal state
Terminal(e) == e.status \in {"failed", "delivered"}

\* C27: on every step, of the worker or of anything else, an outbox entry
\* that is failed or delivered stays exactly as it is, and an iteration of the
\* worker counts no attempt for it: the attempt counter grows by no more than
\* the number of entries that are pending or retrying, and not at all when
\* every entry is terminal, whatever the POSTs would be answered. An entry is
\* failed exactly when it has max_attempts failed attempts, and no entry ever
\* has more.
C27_TerminalEntries ==
    /\ [](/\ \A e \in Range(store.outbox) :
                 /\ e.attempts <= WEBHOOK_MAX_ATTEMPTS
                 /\ e.status = "failed" <=> e.attempts = WEBHOOK_MAX_ATTEMPTS
          /\ (\A e \in Range(store.outbox) : Terminal(e)) =>
                 \A response \in AnyResponses :
                     webhook_delivery_job(store, metrics, now,
                                          [i \in 1..Len(store.outbox) |-> response])
                         = [s |-> store, metrics |-> metrics])
    /\ [][/\ IsPrefix([i \in 1..Len(store.outbox) |-> store.outbox[i].event_id],
                      [i \in 1..Len(store'.outbox) |-> store'.outbox[i].event_id])
          /\ \A i \in 1..Len(store.outbox) :
                 Terminal(store.outbox[i]) => store'.outbox[i] = store.outbox[i]
          /\ metrics'.webhook_attempts - metrics.webhook_attempts
                 <= Cardinality({i \in 1..Len(store.outbox) :
                                     ~Terminal(store.outbox[i])})
      ]_vars

\* the first entry failed for good at 258 s and the time of its next attempt
\* (338 s) has come; the second entry was delivered; since the failure the
\* worker has made no attempt but those of the second entry
C27_Witness ==
    /\ Len(store.outbox) = 2
    /\ store.outbox[1].status = "failed"
    /\ store.outbox[1].next_attempt_at <= now
    /\ store.outbox[2].status = "delivered"
    /\ store.outbox[2].attempts = 4
    /\ store.outbox[2].next_attempt_at > store.outbox[1].next_attempt_at - 80
    /\ metrics = [webhook_attempts |-> 10, webhook_failures |-> 1]

\* the market_resolved events of market m
ResolvedEvents(m) ==
    SelectSeq(store.events,
              LAMBDA ev : ev.event_type = "market_resolved" /\ ev.market_id = m)

\* the payouts of market m entered in the ledger of bot b
PayoutsOf(b, m) ==
    SelectSeq(store.ledger[b], LAMBDA e : e.reason = "payout" /\ e.market_id = m)

\* the trades of bot b on outcome o of market m
WinningTrades(b, m, o) ==
    SelectSeq(store.trades[m], LAMBDA tr : tr.bot_id = b /\ tr.outcome_id = o)

\* C28: however resolve_market calls and the lifecycle job's auto-resolution
\* interleave on a market, the market is settled at most once: it has at most
\* one market_resolved event, its stored Resolution is never replaced, and
\* every bot has at most one payout for each of its trades on the resolved
\* outcome.
C28_SettledOnce ==
    /\ [](\A m \in Markets :
              /\ Len(ResolvedEvents(m)) <= 1
              /\ m \in DOMAIN store.resolutions =>
                     \A b \in BotIds :
                         Len(PayoutsOf(b, m))
                             <= Len(WinningTrades(
                                        b, m, store.resolutions[m].resolved_outcome_id)))
    /\ [][\A m \in DOMAIN store.resolutions :
              store'.resolutions[m] = store.resolutions[m]]_vars

\* ====================================================== the PersistentStore
\* PersistentStore is an InMemoryStore with a sqlite connection. conn holds the
\* tables; a table is the sequence of its rows in rowid order, which is the
\* order the full scan of SELECT * FROM <table> returns them in.

\* the bound on the number of store calls in a run of the persistence model
MaxCalls == 3

\* BotConfig(): the configuration add_bot gives a new bot
BotConfig ==
    [ webhook_url |-> None, event_subscriptions |-> <<>>,
      alert_balance_threshold_bdc |-> R(10) ]

\* PersistentStore._initialize_schema: the tables of the claim's collections
Tables ==
    [ bots |-> <<>>, bot_policies |-> <<>>, bot_configs |-> <<>>,
      markets |-> <<>>, trades |-> <<>>, discussions |-> <<>>,
      resolutions |-> <<>>, resolution_votes |-> <<>>, ledger |-> <<>>,
      treasury_ledger |-> <<>>, webhooks |-> <<>>, events |-> <<>>,
      outbox |-> <<>>, treasury_state |-> <<>> ]

\* PersistentStore._serialize: json.dumps(model.model_dump(mode="json")). The
\* fields of the models are strings, numbers, lists and dicts of them, and
\* UUIDs, enums and datetimes, which the JSON mode writes as strings
_serialize(model) == <<"json", model>>

\* PersistentStore._deserialize: model_validate(json.loads(payload)), which
\* reads the UUIDs, enums and datetimes back from their strings
_deserialize(payload) == payload[2]

\* PersistentStore._upsert_with_field: INSERT OR REPLACE deletes the row of this
\* key, if there is one, and inserts the new row with the next rowid
_upsert_with_field(conn, table, key, field_value, payload) ==
    [conn EXCEPT ![table] =
        SelectSeq(@, LAMBDA row : row.id # key)
            \o <<[id |-> key, field |-> field_value, data |-> payload]>>]

\* PersistentStore._upsert
_upsert(conn, table, key, payload) ==
    _upsert_with_field(conn, table, key, None, payload)

\* d.get(k, []) and the read of a defaultdict(list)
Get(d, k) == IF k \in DOMAIN d THEN d[k] ELSE <<>>

\* PersistentStore.add_bot
Persistent_add_bot(s, bot_id, bot) ==
    LET policy == default_bot_policy(bot.status)
        c1 == _upsert(s.conn, "bots", bot_id, _serialize(bot))
        c2 == _upsert(c1, "bot_policies", bot_id, _serialize(policy))
        c3 == _upsert(c2, "bot_configs", bot_id, _serialize(BotConfig))
    IN [s EXCEPT !.bots = Put(@, bot_id, bot),
                 !.bot_policies = Put(@, bot_id, policy),
                 !.bot_configs = Put(@, bot_id, BotConfig),
                 !.conn = c3]

\* PersistentStore.save_bot
Persistent_save_bot(s, bot_id, bot) ==
    [s EXCEPT !.bots = Put(@, bot_id, bot),
              !.conn = _upsert(@, "bots", bot_id, _serialize(bot))]

\* PersistentStore.save_bot_policy
Persistent_save_bot_policy(s, bot_id, policy) ==
    [s EXCEPT !.bot_policies = Put(@, bot_id, policy),
              !.conn = _upsert(@, "bot_policies", bot_id, _serialize(policy))]

\* PersistentStore.save_bot_config
Persistent_save_bot_config(s, bot_id, config) ==
    [s EXCEPT !.bot_configs = Put(@, bot_id, config),
              !.conn = _upsert(@, "bot_configs", bot_id, _serialize(config))]

\* PersistentStore.add_market; the market's id is its number
Persistent_add_market(s, market) ==
    LET s1 == add_market(s, market)
        m == Len(s1.markets)
    IN [s1 EXCEPT !.conn = _upsert(@, "markets", m, _serialize(s1.markets[m]))]

\* PersistentStore.save_market
Persistent_save_market(s, m, market) ==
    [s EXCEPT !.markets[m] = market,
              !.conn = _upsert(@, "markets", m, _serialize(market))]

\* PersistentStore.add_trade; the number of the row stands for trade.id, a
\* fresh uuid4
Persistent_add_trade(s, m, trade) ==
    [s EXCEPT !.trades[m] = Append(@, trade),
              !.conn = _upsert_with_field(@, "trades", Len(@.trades) + 1, m,
                                          _serialize(trade))]

\* PersistentStore.add_discussion; the number of the row stands for post.id
Persistent_add_discussion(s, m, post) ==
    [s EXCEPT !.discussions = Put(@, m, Append(Get(@, m), post)),
              !.conn = _upsert_with_field(@, "discussions", Len(@.discussions) + 1,
                                          m, _serialize(post))]

\* PersistentStore.add_resolution: one row per market
Persistent_add_resolution(s, m, resolution) ==
    [s EXCEPT !.resolutions = Put(@, m, resolution),
              !.conn = _upsert(@, "resolutions", m, _serialize(resolution))]

RECURSIVE UpsertVotes(_, _, _, _)
\* the loop of add_resolution_votes: one row per market and resolver
UpsertVotes(conn, m, votes, i) ==
    IF i > Len(votes) THEN conn
    ELSE UpsertVotes(
             _upsert_with_field(conn, "resolution_votes",
                                <<m, votes[i].resolver_bot_id>>, m,
                                _serialize(votes[i])),
             m, votes, i + 1)

\* PersistentStore.add_resolution_votes: the store's list for the market is
\* replaced by votes, the table gets or replaces a row for each of them
Persistent_add_resolution_votes(s, m, votes) ==
    [s EXCEPT !.resolution_votes = Put(@, m, votes),
              !.conn = UpsertVotes(@, m, votes, 1)]

\* PersistentStore.add_ledger_entry; the number of the row stands for entry.id
Persistent_add_ledger_entry(s, bot_id, market_id, delta_bdc, reason) ==
    LET s1 == add_ledger_entry(s, bot_id, market_id, delta_bdc, reason)
    IN [s1 EXCEPT !.conn = _upsert_with_field(
                               @, "ledger", Len(@.ledger) + 1, bot_id,
                               _serialize(s1.ledger[bot_id][Len(s1.ledger[bot_id])]))]

\* PersistentStore.add_treasury_entry; the number of the row stands for entry.id
Persistent_add_treasury_entry(s, market_id, delta_bdc, reason) ==
    LET s1 == add_treasury_entry(s, market_id, delta_bdc, reason)
    IN [s1 EXCEPT !.conn = _upsert(
                               @, "treasury_ledger", Len(@.treasury_ledger) + 1,
                               _serialize(s1.treasury_ledger[Len(s1.treasury_ledger)]))]

\* PersistentStore.add_webhook
Persistent_add_webhook(s, webhook) ==
    [add_webhook(s, webhook) EXCEPT
        !.conn = _upsert_with_field(@, "webhooks", webhook.id, webhook.bot_id,
                                    _serialize(webhook))]

\* entry.id, a fresh uuid4: add_event makes one entry per event and webhook
EntryId(entry) == <<entry.webhook_id, entry.event_id>>

RECURSIVE UpsertOutbox(_, _, _)
\* the loop of add_event over self.outbox: every entry is written again
UpsertOutbox(conn, outbox, i) ==
    IF i > Len(outbox) THEN conn
    ELSE UpsertOutbox(_upsert(conn, "outbox", EntryId(outbox[i]),
                              _serialize(outbox[i])),
                      outbox, i + 1)

\* PersistentStore.add_event; the number of the event stands for event.id
Persistent_add_event(s, t, event_type, market_id, bot_id) ==
    LET s1 == add_event(s, t, event_type, market_id, bot_id)
        c1 == _upsert(s1.conn, "events", Len(s1.events),
                      _serialize(s1.events[Len(s1.events)]))
    IN [s1 EXCEPT !.conn = UpsertOutbox(c1, s1.outbox, 1)]

\* InMemoryStore.save_outbox_entry: the entry takes the place of the one with
\* its id, or goes to the end
save_outbox_entry(s, entry) ==
    LET same == {i \in 1..Len(s.outbox) : EntryId(s.outbox[i]) = EntryId(entry)}
    IN IF same = {} THEN [s EXCEPT !.outbox = Append(@, entry)]
       ELSE [s EXCEPT !.outbox[CHOOSE i \in same : \A j \in same : i <= j] = entry]

\* PersistentStore.save_outbox_entry
Persistent_save_outbox_entry(s, entry) ==
    [save_outbox_entry(s, entry) EXCEPT
        !.conn = _upsert(@, "outbox", EntryId(entry), _serialize(entry))]

\* PersistentStore.save_treasury_state: the one row "state"
Persistent_save_treasury_state(s) ==
    [s EXCEPT !.conn = _upsert(@, "treasury_state", "state",
                               _serialize([ balance_bdc |-> s.treasury_balance_bdc,
                                            config |-> s.treasury_config ]))]

RECURSIVE Persistent_CloseEach(_, _, _)
\* the loop of close_expired_markets on a PersistentStore: self.save_market and
\* self.add_event are the overriding methods
Persistent_CloseEach(s, t, i) ==
    IF i > Len(s.markets) THEN s
    ELSE IF s.markets[i].status = "open" /\ t >= s.markets[i].closes_at
         THEN Persistent_CloseEach(
                  Persistent_add_event(
                      Persistent_save_market(
                          s, i, [s.markets[i] EXCEPT !.status = "closed"]),
                      t, "market_closed", i, s.markets[i].creator_bot_id),
                  t, i + 1)
         ELSE Persistent_CloseEach(s, t, i + 1)

\* close_expired_markets, which PersistentStore inherits
Persistent_close_expired_markets(s, t) == Persistent_CloseEach(s, t, 1)

\* one iteration of a loop of _load_state: what the row adds to the store
LoadRow(s, table, row) ==
    LET data == _deserialize(row.data)
    IN CASE table = "bots" -> [s EXCEPT !.bots = Put(@, row.id, data)]
         [] table = "bot_policies" -> [s EXCEPT !.bot_policies = Put(@, row.id, data)]
         [] table = "bot_configs" -> [s EXCEPT !.bot_configs = Put(@, row.id, data)]
         [] table = "markets" -> [s EXCEPT !.markets = Put(@, row.id, data)]
         [] table = "trades" ->
                [s EXCEPT !.trades = Put(@, row.field, Append(Get(@, row.field), data))]
         [] table = "discussions" ->
                [s EXCEPT !.discussions =
                     Put(@, row.field, Append(Get(@, row.field), data))]
         [] table = "resolutions" -> [s EXCEPT !.resolutions = Put(@, row.id, data)]
         [] table = "resolution_votes" ->
                [s EXCEPT !.resolution_votes =
                     Put(@, row.field, Append(Get(@, row.field), data))]
         [] table = "ledger" -> [s EXCEPT !.ledger[row.field] = Append(@, data)]
         [] table = "treasury_ledger" -> [s EXCEPT !.treasury_ledger = Append(@, data)]
         [] table = "webhooks" -> add_webhook(s, data)
         [] table = "events" -> [s EXCEPT !.events = Append(@, data)]
         [] table = "outbox" -> [s EXCEPT !.outbox = Append(@, data)]
         [] table = "treasury_state" ->
                [s EXCEPT !.treasury_balance_bdc = data.balance_bdc,
                          !.treasury_config = data.config]

RECURSIVE LoadRows(_, _, _, _)
\* a loop of _load_state over the rows of a table from row i on
LoadRows(s, table, rows, i) ==
    IF i > Len(rows) THEN s
    ELSE LoadRows(LoadRow(s, table, rows[i]), table, rows, i + 1)

\* the tables in the order _load_state reads them
LoadOrder ==
    << "bots", "bot_policies", "bot_configs", "markets", "trades", "discussions",
       "resolutions", "resolution_votes", "ledger", "treasury_ledger", "webhooks",
       "events", "outbox" >>

RECURSIVE LoadTables(_, _)
\* _load_state from the table number i on; treasury_state is read last, and
\* only its first row
LoadTables(s, i) ==
    IF i > Len(LoadOrder)
    THEN IF s.conn.treasury_state = <<>> THEN s
         ELSE LoadRow(s, "treasury_state", s.conn.treasury_state[1])
    ELSE LoadTables(LoadRows(s, LoadOrder[i], s.conn[LoadOrder[i]], 1), i + 1)

\* PersistentStore._load_state
_load_state(s) == LoadTables(s, 1)

\* PersistentStore(db_path): an empty InMemoryStore, the connection, the state
\* loaded from its tables
PersistentStore(conn) ==
    _load_state([bot_configs |-> <<>>, discussions |-> <<>>, conn |-> conn]
                    @@ InMemoryStore)

\* --------------------------------------- the calls of the store's clients
\* Every step is one call of a PersistentStore method, with arguments as the
\* handlers and jobs of api.py pass them; the clock moves a second per call.
CanCall == now < 183 + MaxCalls

\* the call that leaves the store as s
Called(s) ==
    /\ CanCall
    /\ store' = s
    /\ now' = now + 1
    /\ UNCHANGED <<AUTO_RESOLVE_ENABLED, metrics, resolving, trading>>

\* create_bot: store.add_bot(bot)
AddBot ==
    /\ CanCall
    /\ \E b \in BotIds :
        Called(Persistent_add_bot(store, b, [ wallet_balance_bdc |-> R(0),
                                              reputation_score |-> R(0),
                                              status |-> "inactive" ]))

\* deposit_bdc, create_trade, apply_stake: store.save_bot(bot)
SaveBot ==
    \E b \in DOMAIN store.bots :
        Called(Persistent_save_bot(
                   store, b, [store.bots[b] EXCEPT !.wallet_balance_bdc = RAdd(@, R(5))]))

\* update_bot_policy: store.save_bot_policy(bot_id, policy)
SaveBotPolicy ==
    \E b \in DOMAIN store.bots, status \in {"active", "paused"} :
        Called(Persistent_save_bot_policy(store, b, default_bot_policy(status)))

\* update_bot_config: store.save_bot_config(bot_id, config)
SaveBotConfig ==
    \E b \in DOMAIN store.bots :
        Called(Persistent_save_bot_config(
                   store, b, [BotConfig EXCEPT !.webhook_url = "https://example.com/hook"]))

\* create_market: store.add_market(market)
AddMarket ==
    /\ Len(store.markets) < MaxMarkets
    /\ \E rp \in {"single", "majority"} :
           Called(Persistent_add_market(
                      store, [ creator_bot_id |-> "b1", status |-> "open",
                               outcomes |-> <<"NO", "YES">>, closes_at |-> 185,
                               resolved_at |-> NoTime, resolver_policy |-> rp,
                               outcome_pools |-> <<>>, stake_bdc |-> R(0) ]))

\* create_trade: store.save_market(market) with the traded amount in its pool
SaveMarket ==
    \E m \in 1..Len(store.markets) :
        Called(Persistent_save_market(
                   store, m, [store.markets[m] EXCEPT
                                  !.outcome_pools = add_to_pool(@, "YES", R(1))]))

\* create_trade: store.add_trade(trade)
AddTrade ==
    \E m \in 1..Len(store.markets) :
        /\ Len(store.trades[m]) < MaxTrades
        /\ Called(Persistent_add_trade(
                      store, m, [ bot_id |-> "b2", outcome_id |-> "YES",
                                  amount_bdc |-> R(1), price |-> R(1) ]))

\* create_discussion: store.add_discussion(post)
AddDiscussion ==
    \E m \in 1..Len(store.markets) :
        Called(Persistent_add_discussion(
                   store, m, [ bot_id |-> "b2", outcome_id |-> "YES",
                               body |-> "Reasoning", timestamp |-> now ]))

\* settle_market_resolution: store.add_resolution(resolution)
AddResolution ==
    \E m \in 1..Len(store.markets), o \in {"NO", "YES"} :
        Called(Persistent_add_resolution(
                   store, m, [ resolved_outcome_id |-> o,
                               resolver_bot_ids |-> <<"b1">>, timestamp |-> now ]))

\* the votes of a resolve request: one vote per resolver it names
VoteLists ==
    { <<[resolver_bot_id |-> "b1", outcome_id |-> "YES"]>>,
      <<[resolver_bot_id |-> "b2", outcome_id |-> "NO"]>>,
      <<[resolver_bot_id |-> "b1", outcome_id |-> "YES"],
        [resolver_bot_id |-> "b2", outcome_id |-> "YES"]>> }

\* settle_market_resolution: store.add_resolution_votes(market.id, votes)
AddResolutionVotes ==
    \E m \in 1..Len(store.markets), votes \in VoteLists :
        Called(Persistent_add_resolution_votes(store, m, votes))

\* deposit_bdc: store.add_ledger_entry(entry)
AddLedgerEntry ==
    /\ CanCall
    /\ \E b \in BotIds :
        Called(Persistent_add_ledger_entry(store, b, NoMarket, R(5), "deposit"))

\* distribute_remainder: store.add_treasury_entry(entry)
AddTreasuryEntry ==
    \E m \in 1..Len(store.markets) :
        Called(Persistent_add_treasury_entry(store, m, R(1), "resolution_remainder"))

\* register_webhook: store.add_webhook(webhook)
AddWebhook ==
    /\ Len(store.webhooks) < MaxWebhooks
    /\ \E b \in BotIds :
           Called(Persistent_add_webhook(
                      store, [ id |-> Len(store.webhooks) + 1, bot_id |-> b,
                               event_types |-> {}, created_at |-> now ]))

\* create_market, create_trade, ...: store.add_event(event)
AddEvent ==
    \E event_type \in {"market_created", "price_changed"} :
        LET s == Persistent_add_event(store, now, event_type, 1, "b1")
        IN Len(s.outbox) <= MaxOutbox /\ Called(s)

\* webhook_delivery_job: store.save_outbox_entry(entry) after an attempt
SaveOutboxEntry ==
    \E i \in 1..Len(store.outbox), response \in {204, 500} :
        /\ ~skips_entry(store.outbox[i], now)
        /\ Called(Persistent_save_outbox_entry(
                      store, attempt_delivery(store.outbox[i], now, response)))

\* distribute_remainder, credit_treasury: the balance grows, then
\* store.save_treasury_state()
SaveTreasuryState ==
    /\ CanCall
    /\ Called(Persistent_save_treasury_state(
               [store EXCEPT !.treasury_balance_bdc = RAdd(@, R(1))]))

\* the handlers' and the lifecycle job's store.close_expired_markets()
CloseExpiredMarkets ==
    LET s == Persistent_close_expired_markets(store, now)
    IN Len(s.outbox) <= MaxOutbox /\ Called(s)

\* a process that has opened a new database and served POST /bots for b1 and
\* b2, a webhook of b1 for every event and a market of b1
PersistInit ==
    /\ store = LET bot == [ wallet_balance_bdc |-> R(0), reputation_score |-> R(0),
                            status |-> "inactive" ]
                   s1 == Persistent_add_bot(PersistentStore(Tables), "b1", bot)
                   s2 == Persistent_add_bot(s1, "b2", bot)
                   s3 == Persistent_add_webhook(
                             s2, [ id |-> 1, bot_id |-> "b1", event_types |-> {},
                                   created_at |-> 122 ])
               IN Persistent_add_market(
                      s3, [ creator_bot_id |-> "b1", status |-> "open",
                            outcomes |-> <<"NO", "YES">>, closes_at |-> 185,
                            resolved_at |-> NoTime, resolver_policy |-> "majority",
                            outcome_pools |-> <<>>, stake_bdc |-> R(0) ])
    /\ now = 183
    /\ AUTO_RESOLVE_ENABLED = FALSE
    /\ metrics = RequestMetrics
    /\ resolving = {}
    /\ trading = {}

PersistNext ==
    \/ AddBot
    \/ SaveBot
    \/ SaveBotPolicy
    \/ SaveBotConfig
    \/ AddMarket
    \/ SaveMarket
    \/ AddTrade
    \/ AddDiscussion
    \/ AddResolution
    \/ AddResolutionVotes
    \/ AddLedgerEntry
    \/ AddTreasuryEntry
    \/ AddWebhook
    \/ AddEvent
    \/ SaveOutboxEntry
    \/ SaveTreasuryState
    \/ CloseExpiredMarkets

PersistSpec == PersistInit /\ [][PersistNext]_vars

\* -------------------------------------------------------------------- C29
\* the store a new PersistentStore on the same database holds
Reloaded == PersistentStore(store.conn)

StatusRank(status) ==
    CASE status = "open" -> 1 [] status = "closed" -> 2 [] status = "resolved" -> 3

\* from the store as it is to the store s, no market is lost, no status moves
\* back, and a resolved market keeps its status, its resolved_at, its pools
\* and its trades
Forward(s) ==
    /\ Len(s.markets) >= Len(store.markets)
    /\ \A m \in Markets :
           /\ StatusRank(s.markets[m].status) >= StatusRank(store.markets[m].status)
           /\ Resolved(m) =>
                  /\ s.markets[m].status = "resolved"
                  /\ s.markets[m].resolved_at = store.markets[m].resolved_at
                  /\ s.markets[m].outcome_pools = store.markets[m].outcome_pools
                  /\ s.trades[m] = store.trades[m]

\* C30: a market's status only moves forward along open, closed, resolved. In
\* every reachable state, whatever request a handler serves (any caller, any
\* credentials, any payload of the request sets, any market) and whatever the
\* lifecycle job does with auto-resolve on or off, no market goes from closed
\* to open or from resolved to another status, and a resolved market's
\* status, resolved_at, outcome_pools and trade list stay as they are; and
\* every step of the process keeps it so.
C30_StatusOnlyForward ==
    /\ [](/\ \A caller \in BotIds \cup {Stranger}, key_ok \in BOOLEAN :
                /\ \A m \in 1..MaxMarkets, q \in TradeRequests :
                       Forward(create_trade(store, now, m, q.payload, caller, key_ok).s)
                /\ \A m \in 1..MaxMarkets, q \in ResolutionRequests :
                       Forward(resolve_market(store, now, m, q.payload, caller, key_ok).s)
                /\ \A q \in MarketRequests :
                       Forward(create_market(store, now, q.payload, caller, key_ok).s)
                /\ \A q \in DepositRequests :
                       Forward(deposit_bdc(store, now, q.payload.bot_id,
                                           q.payload.amount_bdc, "deposit",
                                           caller, key_ok).s)
                /\ \A q \in TreasuryRequests :
                       Forward(update_treasury_config(store, now, q.payload,
                                                      caller, key_ok).s)
          /\ \A auto \in BOOLEAN : Forward(market_lifecycle_job(store, now, auto))
          /\ Forward(get_market(store, now).s))
    /\ [][Forward(store')]_vars

\* -------------------------------------------------------------------- C31
\* closes_at of market m has come
Expired(m) == now >= store.markets[m].closes_at

\* C31: the closed transition is applied lazily on access. In every reachable
\* state and for every market whose closes_at has come, whatever its stored
\* status and whether or not the lifecycle job has run, every create_trade
\* request (any caller, any credentials, any payload of the request set) is
\* answered 409 and leaves the market's trades and pools, every wallet and
\* every ledger as they were; and no step of the process changes the trades or
\* the pools of such a market.
C31_LazyCloseRejectsTrades ==
    /\ [](\A m \in Markets :
              Expired(m) =>
                  \A caller \in BotIds \cup {Stranger, Idle}, key_ok \in BOOLEAN,
                     q \in TradeRequests :
                      LET r == create_trade(store, now, m, q.payload, caller, key_ok)
                      IN /\ r.code = 409
                         /\ r.s.trades[m] = store.trades[m]
                         /\ r.s.markets[m].outcome_pools = store.markets[m].outcome_pools
                         /\ r.s.bots = store.bots
                         /\ r.s.ledger = store.ledger)
    /\ [][\A m \in Markets :
              Expired(m) =>
                  /\ store'.trades[m] = store.trades[m]
                  /\ store'.markets[m].outcome_pools = store.markets[m].outcome_pools]_vars

\* a market with a trade whose closes_at has come while its stored status is
\* still open: the lifecycle job has not run since
C31_Witness ==
    \E m \in Markets : Due(m) /\ store.trades[m] # <<>>

\* -------------------------------------------------------------------- C32
\* the entries the worker would attempt at the present time
AttemptedNow == {i \in 1..Len(store.outbox) : Attempted(store.outbox[i])}

\* C32: the worker attempts an entry in an iteration only if the entry is
\* pending or retrying and its next_attempt_at is not later than the
\* iteration's time. Whatever each POST is answered, an iteration leaves every
\* other entry as it is and counts one attempt for each entry that is pending
\* or retrying and due, and none else; no step changes an entry that is not
\* pending or retrying or whose next_attempt_at lies ahead; and after an
\* iteration the next_attempt_at of every retrying entry lies ahead, so that
\* a failed attempt is followed by none before that time.
C32_AttemptOnlyWhenDue ==
    /\ [](\A responses \in [1..Len(store.outbox) -> DeliveryResponses] :
              LET r == webhook_delivery_job(store, metrics, now, responses)
              IN /\ \A i \in 1..Len(store.outbox) :
                        r.s.outbox[i] # store.outbox[i] <=> i \in AttemptedNow
                 /\ r.metrics.webhook_attempts =
                        metrics.webhook_attempts + Cardinality(AttemptedNow))
    /\ [][/\ \A i \in 1..Len(store.outbox) :
                 i \notin AttemptedNow => store'.outbox[i] = store.outbox[i]
          /\ WebhookDeliveryJob =>
                 \A e \in Range(store'.outbox) :
                     e.status = "retrying" => e.next_attempt_at > now
      ]_vars

\* the first entry has failed twice, at 183 and 188 s, and waits for 198 s; it
\* is 193 s, and no attempt but those two has been counted
C32_Witness ==
    /\ Len(store.outbox) >= 1
    /\ store.outbox[1].status = "retrying"
    /\ store.outbox[1].attempts = 2
    /\ store.outbox[1].next_attempt_at = 198
    /\ now = 193
    /\ metrics.webhook_attempts = 2

\* -------------------------------------------------------------------- C33
\* the last time of the model's clock at which the worker runs
LastIteration == 183 + 5 * MaxPauses - 5

RECURSIVE Backoffs(_)
\* the delays an entry waits through from n failed attempts on until it is
\* given up
Backoffs(n) == IF n + 1 >= WEBHOOK_MAX_ATTEMPTS THEN 0 ELSE Delay(n + 1) + Backoffs(n + 1)

\* the time by which entry e is delivered or failed at the latest
SettledBy(e) ==
    IF Terminal(e) THEN now
    ELSE (IF e.next_attempt_at > now THEN e.next_attempt_at ELSE now) + Backoffs(e.attempts)

\* C33: while the worker keeps running and time advances, every outbox entry
\* eventually is delivered or failed, whatever the POSTs are answered: an entry
\* with n failed attempts that is due at time t is terminal when the backoffs
\* after the attempts n+1 .. max_attempts-1 have passed since t (75 s for a new
\* entry), provided the clock of the model goes that far.
C33_EveryEntrySettles ==
    \A i \in 1..MaxOutbox :
        (i <= Len(store.outbox) /\ SettledBy(store.outbox[i]) <= LastIteration)
            ~> (i <= Len(store.outbox) /\ Terminal(store.outbox[i]))

\* the first entry has failed for good on its fifth attempt, 75 s after its
\* creation, and the second, created when the market closed, is still retrying
C33_Witness ==
    /\ Len(store.outbox) = 2
    /\ store.outbox[1].status = "failed"
    /\ store.outbox[1].attempts = WEBHOOK_MAX_ATTEMPTS
    /\ now = 183 + 75 + 5
    /\ store.outbox[2].status = "retrying"

\* -------------------------------------------------------------------- C34
\* the ledger entries of bot b that debit a trade on market m
TradeDebits(s, b, m) ==
    SelectSeq(s.ledger[b], LAMBDA e : e.reason = "trade" /\ e.market_id = m)

\* C34: however a create_trade call interleaves with a manual or an automatic
\* resolve of its market, once the market is settled no step debits a wallet
\* for a trade on it, adds to its pools or adds to its trade list; so the
\* pools of a resolved market stay the total that the settlement distributed.
C34_TradesSerialized ==
    [][\A m \in Markets :
           Resolved(m) =>
               /\ store'.trades[m] = store.trades[m]
               /\ store'.markets[m].outcome_pools = store.markets[m].outcome_pools
               /\ \A b \in DOMAIN store.ledger :
                      TradeDebits(store', b, m) = TradeDebits(store, b, m)
      ]_vars

\* -------------------------------------------------------------------- C35
\* the amounts of the trades and of the stakes tried in every state
TriedAmounts == {R(3), R(12), R(13), R(25)}

\* C35: over every sequence of deposits, trades, stake charges and
\* settlements taken one at a time, every wallet and every outcome pool is at
\* least 0 and no step lowers a pool. In every state a create_trade call for
\* more than the bot's balance, whoever sends it, is answered with an error
\* and changes no wallet, no pool, no trade list and no ledger; and a stake
\* charge above the balance answers 403 and changes no wallet, no ledger and
\* nothing of the treasury.
C35_WalletsAndPoolsNeverNegative ==
    /\ [](/\ \A b \in DOMAIN store.bots : RLe(R(0), store.bots[b].wallet_balance_bdc)
          /\ \A m \in Markets : \A o \in DOMAIN Pools(m) : RLe(R(0), Pools(m)[o])
          /\ \A b \in DOMAIN store.bots, a \in TriedAmounts :
                 RLt(store.bots[b].wallet_balance_bdc, a) =>
                     /\ \A m \in Markets, o \in {"NO", "YES"},
                           caller \in {b, Stranger}, key_ok \in BOOLEAN :
                            LET r == create_trade(store, now, m, TradeCreate(b, o, a),
                                                  caller, key_ok)
                            IN /\ r.code \in {400, 401, 403, 409, 429}
                               /\ r.s.bots = store.bots
                               /\ r.s.ledger = store.ledger
                               /\ r.s.trades = store.trades
                               /\ \A n \in Markets :
                                      r.s.markets[n].outcome_pools = Pools(n)
                     /\ \A reason \in StakeReasons, m \in Markets :
                            LET r == apply_stake(store, now, b, a, reason, m)
                            IN /\ r.code = 403
                               /\ r.s.bots = store.bots
                               /\ r.s.ledger = store.ledger
                               /\ r.s.treasury_balance_bdc = store.treasury_balance_bdc
                               /\ r.s.treasury_ledger = store.treasury_ledger)
    /\ [][\A m \in Markets : \A o \in DOMAIN Pools(m) :
              RLe(Pools(m)[o], store'.markets[m].outcome_pools[o])]_vars

\* a bot with one deposit has paid a resolution stake and holds less than 11
\* BDC, a market with trades is resolved, and a stake of 12 BDC would exceed
\* the balance of every bot
C35_Witness ==
    /\ \E b \in BotIds :
           /\ DepositCount(b) = 1
           /\ RLt(store.bots[b].wallet_balance_bdc, R(11))
           /\ \E i \in 1..Len(store.ledger[b]) : store.ledger[b][i].reason = "resolution_stake"
    /\ \E m \in Markets : Resolved(m) /\ store.trades[m] # <<>>
    /\ \A b \in BotIds : RLt(store.bots[b].wallet_balance_bdc, R(12))

\* -------------------------------------------------------------------- C36
Paused(b) == store.bot_policies[b].status = "paused"

\* the policies a paused bot tries to put
TriedPolicies ==
    {q.payload : q \in StatusRequests \cup PolicyRequests} \cup {default_bot_policy("active")}

\* C36: paused is absorbing. For a paused bot, authenticate_bot answers 403
\* to its own id and key whether or not the handler asks for an active bot;
\* so every request the bot sends with its key that a handler authenticates
\* (policy update, deposit, market, webhook, treasury configuration, trade on
\* an open market, resolve of an unresolved market naming it a resolver) is
\* answered 403, a trade on a market that is not open and a resolve of a
\* resolved market 409, and none of them changes a policy, a bot or the
\* treasury configuration. No step of the process changes the policy or the
\* status of a paused bot; its wallet still changes (by payouts).
C36_PausedIsAbsorbing ==
    /\ [](\A b \in BotIds :
              Paused(b) =>
                  /\ \A require_active \in BOOLEAN :
                         authenticate_bot(store, now, b, b, TRUE, require_active)
                             = [s |-> store, code |-> 403]
                  /\ \A payload \in TriedPolicies :
                         update_bot_policy(store, now, b, payload, b, TRUE)
                             = [s |-> store, code |-> 403]
                  /\ deposit_bdc(store, now, b, R(12), "deposit", b, TRUE)
                         = [s |-> store, code |-> 403]
                  /\ \A q \in MarketRequests :
                         create_market(store, now, [q.payload EXCEPT !.creator_bot_id = b],
                                       b, TRUE) = [s |-> store, code |-> 403]
                  /\ \A q \in WebhookRequests :
                         register_webhook(store, now, b, [q.payload EXCEPT !.bot_id = b],
                                          b, TRUE) = [s |-> store, code |-> 403]
                  /\ \A q \in TreasuryRequests :
                         update_treasury_config(store, now, q.payload, b, TRUE)
                             = [s |-> store, code |-> 403]
                  /\ \A m \in Markets, o \in {"NO", "YES"} :
                         LET s0 == close_expired_markets(store, now)
                             tr == create_trade(store, now, m, TradeCreate(b, o, R(2)), b, TRUE)
                             rs == resolve_market(store, now, m,
                                                  Resolution(<<b>>, o, <<>>), b, TRUE)
                         IN /\ tr = [s |-> s0,
                                     code |-> IF s0.markets[m].status = "open"
                                              THEN 403 ELSE 409]
                            /\ rs = [s |-> s0,
                                     code |-> IF s0.markets[m].status = "resolved"
                                              THEN 409 ELSE 403]
                            /\ s0.bot_policies = store.bot_policies
                            /\ s0.bots = store.bots)
    /\ [][\A b \in BotIds :
              Paused(b) =>
                  /\ store'.bot_policies[b] = store.bot_policies[b]
                  /\ store'.bots[b].status = store.bots[b].status
                  /\ store'.bots[b].wallet_balance_bdc # store.bots[b].wallet_balance_bdc
                         => \E m \in Markets : Settles(m)
      ]_vars

\* b1 paused itself after trading on market 1; the market was resolved after
\* that and paid b1, whose policy is still the paused one
C36_Witness ==
    /\ Paused("b1")
    /\ store.bots["b1"].status = "paused"
    /\ \E i, j \in 1..Len(store.events) :
           /\ i < j
           /\ store.events[i].event_type = "bot_status_changed"
           /\ store.events[i].bot_id = "b1"
           /\ store.events[j].event_type = "market_resolved"
    /\ store.ledger["b1"][Len(store.ledger["b1"])].reason = "payout"

\* -------------------------------------------------------------------- C37
\* the thresholds the gate is tried with in every state
Thresholds == {R(0), R(1), R(2), R(3), R(12), R(13), R(25)}

\* bot b is short of both thresholds
ShortOfBoth(b, min_balance_bdc, min_reputation_score) ==
    /\ RLt(store.bots[b].wallet_balance_bdc, min_balance_bdc)
    /\ RLt(store.bots[b].reputation_score, min_reputation_score)

\* the request of bot b gets as far as the gate: it carries b's id and key, b
\* is active and has requests left in its minute
ReachesGate(q, b) ==
    Authentic(q, b) /\ store.bot_policies[b].status = "active" /\ ~RateLimited(b)

\* the store r.s is the store after the gate refused bot b: the request is
\* logged, one stake_requirement alert of b is recorded, and no bot, ledger,
\* market, resolution or treasury value has changed
RefusedAtGate(r, s0, b) ==
    /\ r.code = 403
    /\ r.s.alerts = Append(store.alerts, [alert_type |-> "stake_requirement", bot_id |-> b])
    /\ r.s.bots = s0.bots
    /\ r.s.ledger = s0.ledger
    /\ r.s.markets = s0.markets
    /\ r.s.resolutions = s0.resolutions
    /\ r.s.treasury_balance_bdc = s0.treasury_balance_bdc

\* C37: the gate refuses (403 and one stake_requirement alert) exactly when
\* the bot's balance is below the minimum balance and its reputation is below
\* the minimum reputation; a bot that meets one of the two passes, the store
\* untouched. So a create_market call that reaches the gate is refused there
\* when the creator is short of both thresholds of its policy and otherwise
\* records no alert at the gate, and a resolve_market call that reaches it
\* likewise with the thresholds for resolution.
C37_GateRejectsWhenBothShort ==
    /\ \A b \in BotIds, min_balance_bdc \in Thresholds, min_reputation_score \in Thresholds :
           LET r == enforce_stake_requirements(store, now, b, min_balance_bdc,
                                               min_reputation_score)
           IN IF ShortOfBoth(b, min_balance_bdc, min_reputation_score)
              THEN r = [s |-> record_alert(store, now, "stake_requirement", b), code |-> 403]
              ELSE r = [s |-> store, code |-> 0]
    /\ \A q \in MarketRequests :
           LET b == q.payload.creator_bot_id
               policy == store.bot_policies[b]
               r == create_market(store, now, q.payload, q.request_bot_id, q.key_ok)
           IN ReachesGate(q, b) =>
                  IF ShortOfBoth(b, policy.min_balance_bdc_for_market,
                                 policy.min_reputation_score_for_market)
                  THEN RefusedAtGate(r, store, b)
                  ELSE r.code = 403
                           => \/ r.s.alerts = store.alerts
                              \/ RLt(store.bots[b].wallet_balance_bdc, policy.stake_bdc_market)
    /\ \A m \in Markets, q \in ResolutionRequests :
           LET b == q.request_bot_id
               ids == q.payload.resolver_bot_ids
               policy == store.bot_policies[b]
               s0 == close_expired_markets(store, now)
               r == resolve_market(store, now, m, q.payload, b, q.key_ok)
           IN (/\ ReachesGate(q, b)
               /\ s0.markets[m].status # "resolved"
               /\ ids # <<>>
               /\ Cardinality(Range(ids)) = Len(ids)
               /\ b \in Range(ids)) =>
                  IF ShortOfBoth(b, policy.min_balance_bdc_for_resolution,
                                 policy.min_reputation_score_for_resolution)
                  THEN RefusedAtGate(r, s0, b)
                  ELSE r.code = 403
                           => \/ r.s.alerts = store.alerts
                              \/ RLt(store.bots[b].wallet_balance_bdc,
                                     policy.stake_bdc_resolution)

\* b1, with 11 BDC and a reputation of 2, asks itself for 13 BDC or a
\* reputation of 2 and has created a second market on its reputation alone;
\* b2, with 12 BDC and a reputation of 1, asks itself for the same and was
\* refused at the gate
C37_Witness ==
    /\ store.bot_policies["b1"] = GatePolicy
    /\ store.bot_policies["b2"] = GatePolicy
    /\ store.bots["b1"].reputation_score = R(2)
    /\ RLt(store.bots["b1"].wallet_balance_bdc, R(13))
    /\ Len(store.markets) = 2
    /\ store.markets[2].creator_bot_id = "b1"
    /\ store.bots["b2"].wallet_balance_bdc = R(12)
    /\ store.alerts = <<[alert_type |-> "stake_requirement", bot_id |-> "b2"]>>

\* -------------------------------------------------------------------- C38
\* C38: in every reachable state every outbox entry has a status of the four,
\* between 0 and max_attempts failed attempts, is failed exactly when it has
\* max_attempts or more of them, has fewer when it is delivered, and none
\* when it is pending.
C38_OutboxEntryShape ==
    \A i \in 1..Len(store.outbox) :
        LET e == store.outbox[i]
        IN /\ e.status \in {"pending", "retrying", "delivered", "failed"}
           /\ 0 <= e.attempts /\ e.attempts <= WEBHOOK_MAX_ATTEMPTS
           /\ e.status = "failed" <=> e.attempts >= WEBHOOK_MAX_ATTEMPTS
           /\ e.status = "delivered" => e.attempts < WEBHOOK_MAX_ATTEMPTS
           /\ e.status = "pending" => e.attempts = 0

\* the first entry was delivered by the last attempt it had, after four
\* failures; the second, of the market's close, has not been attempted yet
C38_Witness ==
    /\ Len(store.outbox) = 2
    /\ store.outbox[1].status = "delivered"
    /\ store.outbox[1].attempts = WEBHOOK_MAX_ATTEMPTS - 1
    /\ store.outbox[2].status = "pending"
    /\ store.outbox[2].attempts = 0

\* -------------------------------------------------------------------- C39
\* C39: in every reachable state, for every market, a Resolution is stored
\* exactly when the market's status is resolved, which is exactly when its
\* resolved_at is set; the stored outcome is one of the market's outcomes; and
\* the events hold exactly one market_resolved event of every resolved market
\* and none of any other.
C39_ResolutionMatchesStatus ==
    \A m \in Markets :
        /\ m \in DOMAIN store.resolutions <=> Resolved(m)
        /\ Resolved(m) <=> store.markets[m].resolved_at # NoTime
        /\ m \in DOMAIN store.resolutions
               => store.resolutions[m].resolved_outcome_id \in Range(store.markets[m].outcomes)
        /\ Len(ResolvedEvents(m)) = IF Resolved(m) THEN 1 ELSE 0

\* -------------------------------------------------------------------- C40
\* the markets of creator b whose stored status is open
OpenMarkets(s, b) ==
    {i \in 1..Len(s.markets) :
        s.markets[i].creator_bot_id = b /\ s.markets[i].status = "open"}

\* bot b has as many open markets as its policy allows
AtLimit(b) ==
    /\ store.bot_policies[b].max_active_markets # 0
    /\ Cardinality(OpenMarkets(store, b)) >= store.bot_policies[b].max_active_markets

\* C40: in every state a create_market call of a creator that has
\* max_active_markets (not 0) markets of stored status open is refused,
\* whoever sends it, with 403 when it gets as far as the limit, and a refused
\* creation adds no market and charges no stake: wallets, ledgers and the
\* treasury stay as they were. With max_active_markets = 0 the number of open
\* markets refuses nobody. So on every step that leaves a bot's policy as it
\* is, a number of open markets within the limit stays within it, and the
\* number grows only below the limit.
C40_ActiveMarketLimit ==
    /\ [](\A q \in MarketRequests, b \in BotIds, key_ok \in BOOLEAN :
              LET payload == [q.payload EXCEPT !.creator_bot_id = b]
                  policy == store.bot_policies[b]
                  r == create_market(store, now, payload, b, key_ok)
                  passes == /\ key_ok
                            /\ ReachesGate(Request(b, key_ok, payload), b)
                            /\ ~ShortOfBoth(b, policy.min_balance_bdc_for_market,
                                            policy.min_reputation_score_for_market)
              IN /\ AtLimit(b) =>
                        /\ r.code # 200
                        /\ passes => r.code = 403 /\ r.s.alerts = store.alerts
                 /\ r.code # 200 =>
                        /\ r.s.markets = store.markets
                        /\ r.s.bots = store.bots
                        /\ r.s.ledger = store.ledger
                        /\ r.s.treasury_balance_bdc = store.treasury_balance_bdc
                        /\ r.s.treasury_ledger = store.treasury_ledger
                 /\ (passes /\ policy.max_active_markets = 0
                        /\ RLe(policy.stake_bdc_market, store.bots[b].wallet_balance_bdc))
                        => r.code = 200)
    /\ [][\A b \in BotIds :
              LET max_active_markets == store.bot_policies[b].max_active_markets
                  open_markets == Cardinality(OpenMarkets(store, b))
                  open_markets_after == Cardinality(OpenMarkets(store', b))
              IN /\ (/\ store'.bot_policies[b] = store.bot_policies[b]
                     /\ max_active_markets # 0
                     /\ open_markets <= max_active_markets)
                        => open_markets_after <= max_active_markets
                 /\ open_markets_after > open_markets
                        => max_active_markets = 0 \/ open_markets < max_active_markets
      ]_vars

\* b1 allows itself one open market and is at that limit with market 1, which
\* is due but still stored as open: a creation by b1, an active bot of
\* reputation 2 with requests left, would be refused for the limit alone; b2,
\* which has put no limit, has created the second market
C40_Witness ==
    /\ store.bot_policies["b1"].max_active_markets = 1
    /\ AtLimit("b1")
    /\ Due(1)
    /\ store.bots["b1"].reputation_score = R(2)
    /\ ~RateLimited("b1")
    /\ create_market(store, now, MarketCreate("b1", "single", 244), "b1", TRUE).code = 403
    /\ store.bot_policies["b2"].max_active_markets = 0
    /\ Len(store.markets) = 2
    /\ store.markets[2].creator_bot_id = "b2"
    /\ store.markets[2].status = "open"

====
